---- MODULE Spec2Model ----
(***************************************************************************)
(* The APE (Actually Portable Executable) linker post-pass of              *)
(* src/cmd/link/internal/ld/ape.go (the current version, lines 1-685):     *)
(* convertToAPE reads the ELF the linker wrote, builds the 65,536-byte     *)
(* polyglot header (makeAPEHeader), shifts the program headers' p_offset   *)
(* and writes header || ELF back with mode 0755.                           *)
(*                                                                         *)
(* Byte buffers are sequences of 0..255; buffer offsets are 0-based as in  *)
(* the Go code (offset k is element k+1).  A uint64 is kept as its eight   *)
(* little-endian bytes, so 64-bit arithmetic wraps exactly as in Go and    *)
(* no model integer leaves the range of TLC's integers.                   *)
(***************************************************************************)
EXTENDS Integers, Sequences, FiniteSets, TLC

VARIABLES
    headType,      \* ctxt.HeadType
    outfile,       \* *flagOutfile
    arch,          \* ctxt.Arch.Family
    loaderSource,  \* the candidate files of getApeLoaderSource, in the order of paths
    inputFile,     \* the file as the linker left it (never changes)
    disk,          \* bytes of the file at the output path
    diskMode,      \* its permission bits
    elfData,       \* convertToAPE: elfData
    header,        \* makeAPEHeader: header
    embeddedElf,   \* makeAPEHeader: embeddedElf
    machoHeader,   \* makeAPEHeader: machoHeader
    apeLoaderGz,   \* makeAPEHeader: apeLoaderGz
    scriptBytes,   \* makeAPEHeader: scriptBytes
    pc,            \* position in convertToAPE / makeAPEHeader
    outcome,       \* "running", "ok", or how the pass ended
    host,          \* the machine that runs the produced file with sh
    sh,            \* position of sh in the generated script
    events,        \* what the script has done so far, in order
    status,        \* exit status of the script (-1: has not exited)
    piped          \* bytes the loader's dd has written to its pipe

vars == <<headType, outfile, arch, loaderSource, inputFile, disk, diskMode, elfData, header,
          embeddedElf, machoHeader, apeLoaderGz, scriptBytes, pc, outcome,
          host, sh, events, status, piped>>

-----------------------------------------------------------------------------
\* Bounds of the model (not program constants).

\* most program headers of a generated input ELF
MaxPhnum == 2
\* payload bytes that follow the program-header table of a generated input
PayloadLen == 8

-----------------------------------------------------------------------------
\* Program constants (ape.go:27-62).

apeHeaderSize == 65536
pageSize4K == 4096
pageSize16K == 16384
elfClass64 == 2
elfDataLSB == 1
elfOSABIFreeBSD == 9
elfTypeExec == 2
elfMachineAMD64 == 62
elfMachineARM64 == 183
machoFileTypeExec == 2
machoFlagNoUndefs == 1
machoLCSegment64 == 25
machoLCUnixThread == 5
machoProtRead == 1
machoProtExec == 4

-----------------------------------------------------------------------------
\* Byte-buffer primitives of Go used by the pass.

Min(a, b) == IF a < b THEN a ELSE b

Max(a, b) == IF a < b THEN b ELSE a

\* make([]byte, n)
Zeros(n) == [k \in 1..n |-> 0]

\* copy(dst[off:], src): copies min(len(src), len(dst)-off) bytes
Copy(dst, off, src) ==
    IF Len(dst) <= off THEN dst
    ELSE LET n == Min(Len(src), Len(dst) - off)
         IN  SubSeq(dst, 1, off) \o SubSeq(src, 1, n) \o SubSeq(dst, off + n + 1, Len(dst))

\* b[lo:hi]
Slice(b, lo, hi) == SubSeq(b, lo + 1, hi)

\* the n little-endian bytes of v (binary.LittleEndian.PutUintN, binary.Write)
RECURSIVE LE(_, _)
LE(v, n) == IF n = 0 THEN <<>> ELSE <<v % 256>> \o LE(v \div 256, n - 1)

\* A 32-bit value too large for one model integer, from its two 16-bit halves.
U32(hi, lo) == LE(lo, 2) \o LE(hi, 2)

\* A 64-bit value from its four 16-bit words, most significant first.
U64(w3, w2, w1, w0) == LE(w0, 2) \o LE(w1, 2) \o LE(w2, 2) \o LE(w3, 2)

\* uint64(n) for a small n
ToU64(n) == LE(n, 8)

\* Ripple-carry addition of two little-endian byte strings of equal length;
\* the carry out of the top byte is dropped (wrap-around mod 2^(8*len)).
RECURSIVE AddBytes(_, _, _)
AddBytes(a, b, carry) ==
    IF a = <<>> THEN <<>>
    ELSE LET s == a[1] + b[1] + carry
         IN  <<s % 256>> \o AddBytes(Tail(a), Tail(b), s \div 256)

\* a + b on uint64
AddU64(a, b) == AddBytes(a, b, 0)

\* a - b on uint64 (two's complement)
SubU64(a, b) == AddBytes(a, [k \in 1..Len(b) |-> 255 - b[k]], 1)

\* A uint64 used as a slice index: its value when below 2^31, else -1
\* ("larger than any buffer of the model").
IndexOf64(u) ==
    IF u[5] = 0 /\ u[6] = 0 /\ u[7] = 0 /\ u[8] = 0 /\ u[4] < 128
    THEN u[1] + 256 * u[2] + 65536 * u[3] + 16777216 * u[4]
    ELSE -1

\* binary.LittleEndian.Uint16(b[off:])
Uint16At(b, off) == b[off + 1] + 256 * b[off + 2]

\* The bytes binary.LittleEndian.Uint64(b[off:]) reads
Uint64At(b, off) == Slice(b, off, off + 8)

\* os.ReadFile returns a slice whose capacity exceeds its length by at least
\* one byte (and is at least 512); the spare bytes are zero.  A reslice
\* b[lo:hi] is checked against the capacity, an index against the length.
ReadFileCap(n) == Max(n + 1, 512)

\* byte p of the array behind a slice returned by os.ReadFile
ByteAt(b, p) == IF p < Len(b) THEN b[p + 1] ELSE 0

-----------------------------------------------------------------------------
\* Values that exceed one model integer, as their little-endian bytes.

machoMagic64 == U32(\hFEED, \hFACF)

machoCPUTypeX64 == U32(\h0100, \h0007)

machoCPUSubtypeX64 == U32(\h8000, \h0003)

\* const machoVMAddr = uint64(0x100000000)
machoVMAddr == U64(0, 1, 0, 0)

-----------------------------------------------------------------------------
\* String literals of ape.go, as bytes.

\* here-doc terminator (ape.go:233-233), 8 bytes
scriptTerminator ==
    <<95, 95, 65, 80, 69, 95, 95, 10>>

\* architecture probe (ape.go:238-238), 38 bytes
scriptUname ==
    <<109, 61, 36, 40, 117, 110, 97, 109, 101, 32, 45, 109, 32, 50, 62, 47, 100, 101, 118, 47,
      110, 117, 108, 108, 41, 32, 124, 124, 32, 109, 61, 120, 56, 54, 95, 54, 52, 10>>

\* AMD64 target, x86_64 host: open fd 7, start printf (ape.go:242-245), 110 bytes
scriptAmd64Open ==
    <<105, 102, 32, 91, 32, 34, 36, 109, 34, 32, 61, 32, 120, 56, 54, 95, 54, 52, 32, 93, 32,
      124, 124, 32, 91, 32, 34, 36, 109, 34, 32, 61, 32, 97, 109, 100, 54, 52, 32, 93, 59, 32,
      116, 104, 101, 110, 10, 32, 32, 111, 61, 34, 36, 40, 99, 111, 109, 109, 97, 110, 100, 32,
      45, 118, 32, 34, 36, 48, 34, 41, 34, 10, 32, 32, 101, 120, 101, 99, 32, 55, 60, 62, 32,
      34, 36, 111, 34, 32, 124, 124, 32, 101, 120, 105, 116, 32, 49, 50, 49, 10, 32, 32, 112,
      114, 105, 110, 116, 102, 32, 39>>

\* end of the printf argument, redirect to fd 7 (ape.go:255-255), 6 bytes
scriptPrintfClose ==
    <<39, 32, 62, 38, 55, 10>>

\* close fd 7 (two-space indent) (ape.go:256-256), 12 bytes
scriptCloseFd2 ==
    <<32, 32, 101, 120, 101, 99, 32, 55, 60, 38, 45, 10>>

\* dd statement up to bs=, guarded by -d /Applications (ape.go:261-261), 48 bytes
scriptDdGuarded ==
    <<32, 32, 91, 32, 45, 100, 32, 47, 65, 112, 112, 108, 105, 99, 97, 116, 105, 111, 110, 115,
      32, 93, 32, 38, 38, 32, 100, 100, 32, 105, 102, 61, 34, 36, 111, 34, 32, 111, 102, 61, 34,
      36, 111, 34, 32, 98, 115, 61>>

\* between bs and skip (ape.go:261-261), 6 bytes
scriptDdSkip ==
    <<32, 115, 107, 105, 112, 61>>

\* between skip and count (ape.go:261-261), 7 bytes
scriptDdCount ==
    <<32, 99, 111, 117, 110, 116, 61>>

\* after count (ape.go:261-261), 26 bytes
scriptDdTail ==
    <<32, 99, 111, 110, 118, 61, 110, 111, 116, 114, 117, 110, 99, 32, 50, 62, 47, 100, 101,
      118, 47, 110, 117, 108, 108, 10>>

\* AMD64 target: re-exec; ARM64 host branch up to its printf (ape.go:263-275), 452 bytes
scriptAmd64Rosetta ==
    <<32, 32, 101, 120, 101, 99, 32, 34, 36, 48, 34, 32, 34, 36, 64, 34, 10, 102, 105, 10, 105,
      102, 32, 91, 32, 34, 36, 109, 34, 32, 61, 32, 97, 97, 114, 99, 104, 54, 52, 32, 93, 32,
      124, 124, 32, 91, 32, 34, 36, 109, 34, 32, 61, 32, 97, 114, 109, 54, 52, 32, 93, 59, 32,
      116, 104, 101, 110, 10, 32, 32, 105, 102, 32, 91, 32, 45, 100, 32, 47, 65, 112, 112, 108,
      105, 99, 97, 116, 105, 111, 110, 115, 32, 93, 59, 32, 116, 104, 101, 110, 10, 32, 32, 32,
      32, 35, 32, 109, 97, 99, 79, 83, 32, 65, 82, 77, 54, 52, 32, 114, 117, 110, 110, 105, 110,
      103, 32, 120, 56, 54, 95, 54, 52, 32, 98, 105, 110, 97, 114, 121, 58, 32, 99, 104, 101,
      99, 107, 32, 102, 111, 114, 32, 82, 111, 115, 101, 116, 116, 97, 10, 32, 32, 32, 32, 105,
      102, 32, 33, 32, 97, 114, 99, 104, 32, 45, 120, 56, 54, 95, 54, 52, 32, 47, 117, 115, 114,
      47, 98, 105, 110, 47, 116, 114, 117, 101, 32, 50, 62, 47, 100, 101, 118, 47, 110, 117,
      108, 108, 59, 32, 116, 104, 101, 110, 10, 32, 32, 32, 32, 32, 32, 101, 99, 104, 111, 32,
      39, 65, 80, 69, 58, 32, 84, 104, 105, 115, 32, 120, 56, 54, 95, 54, 52, 32, 98, 105, 110,
      97, 114, 121, 32, 114, 101, 113, 117, 105, 114, 101, 115, 32, 82, 111, 115, 101, 116, 116,
      97, 32, 50, 32, 111, 110, 32, 65, 112, 112, 108, 101, 32, 83, 105, 108, 105, 99, 111, 110,
      46, 39, 32, 62, 38, 50, 10, 32, 32, 32, 32, 32, 32, 101, 99, 104, 111, 32, 39, 73, 110,
      115, 116, 97, 108, 108, 32, 82, 111, 115, 101, 116, 116, 97, 32, 119, 105, 116, 104, 58,
      32, 115, 111, 102, 116, 119, 97, 114, 101, 117, 112, 100, 97, 116, 101, 32, 45, 45, 105,
      110, 115, 116, 97, 108, 108, 45, 114, 111, 115, 101, 116, 116, 97, 39, 32, 62, 38, 50, 10,
      32, 32, 32, 32, 32, 32, 101, 120, 105, 116, 32, 49, 10, 32, 32, 32, 32, 102, 105, 10, 32,
      32, 32, 32, 111, 61, 34, 36, 40, 99, 111, 109, 109, 97, 110, 100, 32, 45, 118, 32, 34, 36,
      48, 34, 41, 34, 10, 32, 32, 32, 32, 101, 120, 101, 99, 32, 55, 60, 62, 32, 34, 36, 111,
      34, 32, 124, 124, 32, 101, 120, 105, 116, 32, 49, 50, 49, 10, 32, 32, 32, 32, 112, 114,
      105, 110, 116, 102, 32, 39>>

\* close fd 7 (four-space indent) (ape.go:286-286), 14 bytes
scriptCloseFd4 ==
    <<32, 32, 32, 32, 101, 120, 101, 99, 32, 55, 60, 38, 45, 10>>

\* dd statement up to bs=, unguarded (ape.go:291-291), 26 bytes
scriptDdPlain ==
    <<32, 32, 32, 32, 100, 100, 32, 105, 102, 61, 34, 36, 111, 34, 32, 111, 102, 61, 34, 36,
      111, 34, 32, 98, 115, 61>>

\* AMD64 target: re-exec, ARM64 Linux error (ape.go:293-298), 91 bytes
scriptAmd64Close ==
    <<32, 32, 32, 32, 101, 120, 101, 99, 32, 34, 36, 48, 34, 32, 34, 36, 64, 34, 10, 32, 32,
      102, 105, 10, 32, 32, 101, 99, 104, 111, 32, 39, 65, 80, 69, 58, 32, 65, 82, 77, 54, 52,
      32, 76, 105, 110, 117, 120, 32, 99, 97, 110, 110, 111, 116, 32, 114, 117, 110, 32, 120,
      56, 54, 95, 54, 52, 32, 98, 105, 110, 97, 114, 121, 39, 32, 62, 38, 50, 10, 32, 32, 101,
      120, 105, 116, 32, 49, 10, 102, 105, 10>>

\* ARM64 target up to the printf (ape.go:303-332), 1110 bytes
scriptArm64Open ==
    <<105, 102, 32, 91, 32, 34, 36, 109, 34, 32, 61, 32, 120, 56, 54, 95, 54, 52, 32, 93, 32,
      124, 124, 32, 91, 32, 34, 36, 109, 34, 32, 61, 32, 97, 109, 100, 54, 52, 32, 93, 59, 32,
      116, 104, 101, 110, 10, 32, 32, 101, 99, 104, 111, 32, 39, 65, 80, 69, 58, 32, 120, 56,
      54, 95, 54, 52, 32, 99, 97, 110, 110, 111, 116, 32, 114, 117, 110, 32, 65, 82, 77, 54, 52,
      32, 98, 105, 110, 97, 114, 121, 39, 32, 62, 38, 50, 10, 32, 32, 101, 120, 105, 116, 32,
      49, 10, 102, 105, 10, 111, 61, 34, 36, 40, 99, 111, 109, 109, 97, 110, 100, 32, 45, 118,
      32, 34, 36, 48, 34, 41, 34, 10, 116, 61, 34, 36, 123, 84, 77, 80, 68, 73, 82, 58, 45, 36,
      123, 72, 79, 77, 69, 58, 45, 46, 125, 125, 47, 46, 97, 112, 101, 45, 49, 46, 49, 48, 34,
      10, 105, 102, 32, 91, 32, 34, 36, 109, 34, 32, 61, 32, 97, 97, 114, 99, 104, 54, 52, 32,
      93, 32, 124, 124, 32, 91, 32, 34, 36, 109, 34, 32, 61, 32, 97, 114, 109, 54, 52, 32, 93,
      59, 32, 116, 104, 101, 110, 10, 32, 32, 105, 102, 32, 91, 32, 45, 100, 32, 47, 65, 112,
      112, 108, 105, 99, 97, 116, 105, 111, 110, 115, 32, 93, 59, 32, 116, 104, 101, 110, 10,
      32, 32, 32, 32, 35, 32, 109, 97, 99, 79, 83, 32, 65, 82, 77, 54, 52, 58, 32, 117, 115,
      101, 32, 99, 111, 109, 112, 105, 108, 101, 100, 32, 77, 97, 99, 104, 45, 79, 32, 108, 111,
      97, 100, 101, 114, 32, 111, 114, 32, 99, 111, 109, 112, 105, 108, 101, 32, 102, 114, 111,
      109, 32, 115, 111, 117, 114, 99, 101, 10, 32, 32, 32, 32, 35, 32, 68, 111, 110, 39, 116,
      32, 117, 115, 101, 32, 101, 120, 105, 115, 116, 105, 110, 103, 32, 108, 111, 97, 100, 101,
      114, 32, 105, 102, 32, 105, 116, 32, 109, 105, 103, 104, 116, 32, 98, 101, 32, 69, 76, 70,
      32, 40, 102, 114, 111, 109, 32, 76, 105, 110, 117, 120, 41, 10, 32, 32, 32, 32, 105, 102,
      32, 91, 32, 45, 120, 32, 34, 36, 116, 34, 32, 93, 32, 38, 38, 32, 102, 105, 108, 101, 32,
      34, 36, 116, 34, 32, 50, 62, 47, 100, 101, 118, 47, 110, 117, 108, 108, 32, 124, 32, 103,
      114, 101, 112, 32, 45, 113, 32, 34, 77, 97, 99, 104, 45, 79, 34, 59, 32, 116, 104, 101,
      110, 10, 32, 32, 32, 32, 32, 32, 101, 120, 101, 99, 32, 34, 36, 116, 34, 32, 34, 36, 111,
      34, 32, 34, 36, 64, 34, 10, 32, 32, 32, 32, 102, 105, 10, 32, 32, 32, 32, 35, 32, 67, 111,
      109, 112, 105, 108, 101, 32, 65, 80, 69, 32, 108, 111, 97, 100, 101, 114, 32, 102, 114,
      111, 109, 32, 101, 109, 98, 101, 100, 100, 101, 100, 32, 115, 111, 117, 114, 99, 101, 10,
      32, 32, 32, 32, 105, 102, 32, 33, 32, 116, 121, 112, 101, 32, 99, 99, 32, 62, 47, 100,
      101, 118, 47, 110, 117, 108, 108, 32, 50, 62, 38, 49, 59, 32, 116, 104, 101, 110, 10, 32,
      32, 32, 32, 32, 32, 101, 99, 104, 111, 32, 34, 36, 48, 58, 32, 112, 108, 101, 97, 115,
      101, 32, 114, 117, 110, 58, 32, 120, 99, 111, 100, 101, 45, 115, 101, 108, 101, 99, 116,
      32, 45, 45, 105, 110, 115, 116, 97, 108, 108, 34, 32, 62, 38, 50, 10, 32, 32, 32, 32, 32,
      32, 101, 120, 105, 116, 32, 49, 10, 32, 32, 32, 32, 102, 105, 10, 32, 32, 32, 32, 109,
      107, 100, 105, 114, 32, 45, 112, 32, 34, 36, 123, 116, 37, 47, 42, 125, 34, 32, 124, 124,
      32, 101, 120, 105, 116, 10, 32, 32, 32, 32, 100, 100, 32, 105, 102, 61, 34, 36, 111, 34,
      32, 98, 115, 61, 49, 32, 115, 107, 105, 112, 61, 65, 80, 69, 95, 76, 79, 65, 68, 69, 82,
      95, 79, 70, 70, 83, 69, 84, 32, 99, 111, 117, 110, 116, 61, 65, 80, 69, 95, 76, 79, 65,
      68, 69, 82, 95, 83, 73, 90, 69, 32, 50, 62, 47, 100, 101, 118, 47, 110, 117, 108, 108, 32,
      124, 32, 103, 122, 105, 112, 32, 45, 100, 99, 32, 62, 34, 36, 116, 46, 99, 46, 36, 36, 34,
      32, 124, 124, 32, 101, 120, 105, 116, 10, 32, 32, 32, 32, 109, 118, 32, 45, 102, 32, 34,
      36, 116, 46, 99, 46, 36, 36, 34, 32, 34, 36, 116, 46, 99, 34, 32, 124, 124, 32, 101, 120,
      105, 116, 10, 32, 32, 32, 32, 99, 99, 32, 45, 119, 32, 45, 79, 32, 45, 111, 32, 34, 36,
      116, 46, 36, 36, 34, 32, 34, 36, 116, 46, 99, 34, 32, 124, 124, 32, 101, 120, 105, 116,
      10, 32, 32, 32, 32, 109, 118, 32, 45, 102, 32, 34, 36, 116, 46, 36, 36, 34, 32, 34, 36,
      116, 34, 32, 124, 124, 32, 101, 120, 105, 116, 10, 32, 32, 32, 32, 101, 120, 101, 99, 32,
      34, 36, 116, 34, 32, 34, 36, 111, 34, 32, 34, 36, 64, 34, 10, 32, 32, 101, 108, 115, 101,
      10, 32, 32, 32, 32, 35, 32, 76, 105, 110, 117, 120, 32, 65, 82, 77, 54, 52, 58, 32, 99,
      104, 101, 99, 107, 32, 102, 111, 114, 32, 108, 111, 97, 100, 101, 114, 44, 32, 111, 114,
      32, 116, 114, 97, 110, 115, 102, 111, 114, 109, 32, 69, 76, 70, 32, 104, 101, 97, 100,
      101, 114, 10, 32, 32, 32, 32, 116, 121, 112, 101, 32, 97, 112, 101, 32, 62, 47, 100, 101,
      118, 47, 110, 117, 108, 108, 32, 50, 62, 38, 49, 32, 38, 38, 32, 101, 120, 101, 99, 32,
      97, 112, 101, 32, 34, 36, 111, 34, 32, 34, 36, 64, 34, 10, 32, 32, 32, 32, 91, 32, 45,
      120, 32, 34, 36, 116, 34, 32, 93, 32, 38, 38, 32, 101, 120, 101, 99, 32, 34, 36, 116, 34,
      32, 34, 36, 111, 34, 32, 34, 36, 64, 34, 10, 32, 32, 32, 32, 101, 120, 101, 99, 32, 55,
      60, 62, 32, 34, 36, 111, 34, 32, 124, 124, 32, 101, 120, 105, 116, 32, 49, 50, 49, 10, 32,
      32, 32, 32, 112, 114, 105, 110, 116, 102, 32, 39>>

\* ARM64 target: close fd 7 and re-exec (ape.go:343-347), 41 bytes
scriptArm64Close ==
    <<32, 32, 32, 32, 101, 120, 101, 99, 32, 55, 60, 38, 45, 10, 32, 32, 32, 32, 101, 120, 101,
      99, 32, 34, 36, 48, 34, 32, 34, 36, 64, 34, 10, 32, 32, 102, 105, 10, 102, 105, 10>>

\* Cygwin/MSYS delegation and the fallback error (ape.go:350-356), 200 bytes
scriptWindows ==
    <<35, 32, 87, 105, 110, 100, 111, 119, 115, 32, 115, 104, 101, 108, 108, 115, 32, 40, 77,
      83, 89, 83, 47, 67, 121, 103, 119, 105, 110, 41, 58, 32, 100, 101, 108, 101, 103, 97, 116,
      101, 32, 116, 111, 32, 99, 109, 100, 46, 101, 120, 101, 32, 102, 111, 114, 32, 80, 69, 32,
      101, 120, 101, 99, 117, 116, 105, 111, 110, 10, 99, 97, 115, 101, 32, 34, 36, 40, 117,
      110, 97, 109, 101, 32, 45, 115, 32, 50, 62, 47, 100, 101, 118, 47, 110, 117, 108, 108, 41,
      34, 32, 105, 110, 10, 67, 89, 71, 87, 73, 78, 42, 124, 77, 73, 78, 71, 87, 42, 124, 77,
      83, 89, 83, 42, 41, 32, 101, 120, 101, 99, 32, 99, 109, 100, 32, 47, 47, 99, 32, 34, 36,
      48, 34, 32, 34, 36, 64, 34, 32, 59, 59, 10, 101, 115, 97, 99, 10, 101, 99, 104, 111, 32,
      39, 65, 80, 69, 58, 32, 117, 110, 115, 117, 112, 112, 111, 114, 116, 101, 100, 32, 112,
      108, 97, 116, 102, 111, 114, 109, 39, 32, 62, 38, 50, 10, 101, 120, 105, 116, 32, 49, 10>>

\* heredoc opener (ape.go:212-212), 15 bytes
heredocOpener ==
    <<10, 58, 32, 60, 60, 39, 95, 95, 65, 80, 69, 95, 95, 39, 10>>

\* MZqFpD=' (ape.go:198-198), 8 bytes
apeMagic ==
    <<77, 90, 113, 70, 112, 68, 61, 39>>

\* APE_LOADER_OFFSET (ape.go:367-367), 17 bytes
placeholderOffset ==
    <<65, 80, 69, 95, 76, 79, 65, 68, 69, 82, 95, 79, 70, 70, 83, 69, 84>>

\* APE_LOADER_SIZE (ape.go:368-368), 15 bytes
placeholderSize ==
    <<65, 80, 69, 95, 76, 79, 65, 68, 69, 82, 95, 83, 73, 90, 69>>

\* __TEXT padded to 16 bytes (ape.go:517-517), 16 bytes
machoSegname ==
    <<95, 95, 84, 69, 88, 84, 0, 0, 0, 0, 0, 0, 0, 0, 0, 0>>

\* .text padded to 8 bytes (ape.go:605-605), 8 bytes
peSectionName ==
    <<46, 116, 101, 120, 116, 0, 0, 0>>

\* ELF magic (ape.go:37-37), 4 bytes
elfMagic ==
    <<127, 69, 76, 70>>
-----------------------------------------------------------------------------
\* makeEmbeddedElfHeader (ape.go:424-475)

makeEmbeddedElfHeader_phoffUnshifted(origElf, elfOffset, pageSize, a) ==
    LET h1 == Copy(Zeros(64), 0, elfMagic \o <<elfClass64, elfDataLSB, 1, elfOSABIFreeBSD>>)
        h2 == Copy(h1, 16, LE(elfTypeExec, 2))
        h3 == Copy(h2, 18, LE(IF a = "ARM64" THEN elfMachineARM64 ELSE elfMachineAMD64, 2))
        h4 == Copy(h3, 20, LE(1, 4))
        h5 == Copy(h4, 24, Slice(origElf, 24, 32))
        h6 == Copy(h5, 32, Uint64At(origElf, 32))
        h7 == Copy(Copy(Copy(h6, 40, ToU64(0)), 48, LE(0, 4)), 52, LE(64, 2))
        h8 == Copy(Copy(h7, 54, Slice(origElf, 54, 56)), 56, Slice(origElf, 56, 58))
    IN  Copy(Copy(Copy(h8, 58, LE(64, 2)), 60, LE(0, 2)), 62, LE(0, 2))

\* a header that takes e_shoff from the input as well
makeEmbeddedElfHeader_copiesShoff(origElf, elfOffset, pageSize, a) ==
    LET h1 == Copy(Zeros(64), 0, elfMagic \o <<elfClass64, elfDataLSB, 1, elfOSABIFreeBSD>>)
        h2 == Copy(h1, 16, LE(elfTypeExec, 2))
        h3 == Copy(h2, 18, LE(IF a = "ARM64" THEN elfMachineARM64 ELSE elfMachineAMD64, 2))
        h4 == Copy(h3, 20, LE(1, 4))
        h5 == Copy(h4, 24, Slice(origElf, 24, 32))
        h6 == Copy(h5, 32, AddU64(Uint64At(origElf, 32), elfOffset))
        h7 == Copy(Copy(Copy(h6, 40, Slice(origElf, 40, 48)), 48, LE(0, 4)), 52, LE(64, 2))
        h8 == Copy(Copy(h7, 54, Slice(origElf, 54, 56)), 56, Slice(origElf, 56, 58))
    IN  Copy(Copy(Copy(h8, 58, LE(64, 2)), 60, LE(0, 2)), 62, LE(0, 2))

makeEmbeddedElfHeader(origElf, elfOffset, pageSize, a) ==
    LET h0 == Zeros(64)
        \* magic and e_ident
        h1 == Copy(h0, 0, elfMagic \o <<elfClass64, elfDataLSB, 1, elfOSABIFreeBSD>>)
        \* e_type, e_machine, e_version
        h2 == Copy(h1, 16, LE(elfTypeExec, 2))
        h3 == Copy(h2, 18, LE(IF a = "ARM64" THEN elfMachineARM64 ELSE elfMachineAMD64, 2))
        h4 == Copy(h3, 20, LE(1, 4))
        \* e_entry copied, e_phoff shifted by elfOffset
        h5 == Copy(h4, 24, Slice(origElf, 24, 32))
        h6 == Copy(h5, 32, AddU64(Uint64At(origElf, 32), elfOffset))
        \* e_shoff, e_flags, e_ehsize
        h7 == Copy(Copy(Copy(h6, 40, ToU64(0)), 48, LE(0, 4)), 52, LE(64, 2))
        \* e_phentsize, e_phnum copied
        h8 == Copy(Copy(h7, 54, Slice(origElf, 54, 56)), 56, Slice(origElf, 56, 58))
        \* e_shentsize, e_shnum, e_shstrndx
    IN  Copy(Copy(Copy(h8, 58, LE(64, 2)), 60, LE(0, 2)), 62, LE(0, 2))

-----------------------------------------------------------------------------
\* makeMachoHeader (ape.go:478-545)

\* uint64 offset of program header i (elfPhoff + uint64(i)*uint64(elfPhentsize))
phdrOffsetOf(phoff, phentsize, i) == AddU64(phoff, ToU64(i * phentsize))

\* The scan for the first PT_LOAD (ape.go:485-493): its p_vaddr, 0 when there
\* is none, or a panic when a slice expression leaves the buffer.
RECURSIVE findBaseVAddr(_, _, _, _, _)
findBaseVAddr(elf, phoff, phentsize, phnum, i) ==
    IF i >= phnum THEN [panic |-> FALSE, base |-> ToU64(0)]
    ELSE LET x == IndexOf64(phdrOffsetOf(phoff, phentsize, i))
             cap == ReadFileCap(Len(elf))
         IN  IF x < 0 \/ x > Len(elf) \/ x + 4 > cap
             THEN [panic |-> TRUE, base |-> ToU64(0)]
             ELSE IF <<ByteAt(elf, x), ByteAt(elf, x + 1), ByteAt(elf, x + 2),
                       ByteAt(elf, x + 3)>> = LE(1, 4)
                  THEN IF x + 24 > cap
                       THEN [panic |-> TRUE, base |-> ToU64(0)]
                       ELSE [panic |-> FALSE,
                             base |-> [k \in 1..8 |-> ByteAt(elf, x + 15 + k)]]
                  ELSE findBaseVAddr(elf, phoff, phentsize, phnum, i + 1)

\* machoEntry := machoVMAddr + (elfEntry - elfBaseVAddr)
machoEntryOf_noRebase(elfEntry, elfBaseVAddr) == elfEntry

machoEntryOf(elfEntry, elfBaseVAddr) == AddU64(machoVMAddr, SubU64(elfEntry, elfBaseVAddr))

\* mach_header_64 (ape.go:504-512)
machoMachHeader ==
    machoMagic64 \o machoCPUTypeX64 \o machoCPUSubtypeX64 \o LE(machoFileTypeExec, 4)
    \o LE(2, 4) \o LE(72 + 184, 4) \o LE(machoFlagNoUndefs, 4) \o LE(0, 4)

\* LC_SEGMENT_64 for __TEXT (ape.go:514-525)
machoSegmentCommand(elfLen, elfOffset) ==
    LE(machoLCSegment64, 4) \o LE(72, 4) \o machoSegname
    \o machoVMAddr \o ToU64(elfLen) \o elfOffset \o ToU64(elfLen)
    \o LE(machoProtRead + machoProtExec, 4) \o LE(machoProtRead + machoProtExec, 4)
    \o LE(0, 4) \o LE(0, 4)

\* LC_UNIXTHREAD (ape.go:527-542): four uint32, sixteen zero registers, rip,
\* rflags, and four more zero uint64
machoThreadCommand(machoEntry) ==
    LE(machoLCUnixThread, 4) \o LE(184, 4) \o LE(4, 4) \o LE(42, 4)
    \o Zeros(16 * 8) \o machoEntry \o ToU64(0) \o Zeros(4 * 8)

\* Result: panic, or the bytes of buf.
makeMachoHeader(elf, elfOffset, elfEntry) ==
    LET elfPhoff == Uint64At(elf, 32)
        elfPhentsize == Uint16At(elf, 54)
        elfPhnum == Uint16At(elf, 56)
        scan == findBaseVAddr(elf, elfPhoff, elfPhentsize, elfPhnum, 0)
    IN  IF scan.panic THEN [panic |-> TRUE, bytes |-> <<>>]
        ELSE [panic |-> FALSE,
              bytes |-> machoMachHeader
                        \o machoSegmentCommand(Len(elf), elfOffset)
                        \o machoThreadCommand(machoEntryOf(elfEntry, scan.base))]

-----------------------------------------------------------------------------
\* The p_offset adjustment loop of convertToAPE (ape.go:105-114)

\* one iteration's store: the uint64 at x becomes itself + apeHeaderSize
patchOne_noCarry(elf, x) ==
    Copy(elf, x + 2, <<(elf[x + 3] + 1) % 256>>)

patchOne(elf, x) == Copy(elf, x, AddU64(Uint64At(elf, x), ToU64(apeHeaderSize)))

\* Result: panic (an index past the end of elfData), or the patched bytes.
RECURSIVE patchLoop(_, _, _, _, _)
patchLoop(elf, phoff, phentsize, phnum, i) ==
    IF i >= phnum THEN [panic |-> FALSE, data |-> elf]
    ELSE LET x == IndexOf64(AddU64(phdrOffsetOf(phoff, phentsize, i), ToU64(8)))
         IN  IF x < 0 \/ x + 8 > Len(elf)
             THEN [panic |-> TRUE, data |-> elf]
             ELSE patchLoop(patchOne(elf, x), phoff, phentsize, phnum, i + 1)

-----------------------------------------------------------------------------
\* Formatting (fmt.Fprintf) and the printf-argument encoding (ape.go:246-254)

\* %o
RECURSIVE Octal(_)
Octal(n) == IF n < 8 THEN <<48 + n>> ELSE Octal(n \div 8) \o <<48 + (n % 8)>>

\* %d of a non-negative int
RECURSIVE Decimal(_)
Decimal(n) == IF n < 10 THEN <<48 + n>> ELSE Decimal(n \div 10) \o <<48 + (n % 10)>>

\* zero padding to a minimum width (%03o)
PadZero(s, w) == [k \in 1..Max(0, w - Len(s)) |-> 48] \o s

\* the encoding of one byte of embeddedElf inside the single-quoted argument
encodeByte_shortEscapes(b) ==
    IF b = 39 THEN <<39, 92, 39, 39>>
    ELSE IF b >= 32 /\ b < 127 /\ b # 92 THEN <<b>>
    ELSE IF b = 10 THEN <<92, 110>>
    ELSE <<92>> \o Octal(b)

encodeByte(b) ==
    IF b = 39 THEN <<39, 92, 39, 39>>
    ELSE IF b >= 32 /\ b < 127 /\ b # 92 THEN <<b>>
    ELSE <<92>> \o PadZero(Octal(b), 3)

\* for _, b := range embeddedElf { ... }
RECURSIVE encodePrintf(_)
encodePrintf(bs) ==
    IF bs = <<>> THEN <<>>
    ELSE IF Len(bs) = 1 THEN encodeByte(bs[1])
    ELSE LET m == Len(bs) \div 2
         IN  encodePrintf(SubSeq(bs, 1, m)) \o encodePrintf(SubSeq(bs, m + 1, Len(bs)))

-----------------------------------------------------------------------------
\* writePEHeader (ape.go:548-620)

peStart == 128

coffStart == peStart + 4

optStart == coffStart + 20

sectStart == optStart + 240

\* a machine type that does not follow the architecture
peMachineType_amd64Always(a) == IF a = "ARM64" THEN \h8664 ELSE \h8664

\* machineType
peMachineType(a) == IF a = "ARM64" THEN \hAA64 ELSE \h8664

\* The stores of writePEHeader, in program order, each <<offset, bytes>>.
peWrites(a) ==
    << <<peStart, <<80, 69, 0, 0>>>>,
       \* COFF header
       <<coffStart + 0, LE(peMachineType(a), 2)>>,
       <<coffStart + 2, LE(1, 2)>>,
       <<coffStart + 4, LE(0, 4)>>,
       <<coffStart + 8, LE(0, 4)>>,
       <<coffStart + 12, LE(0, 4)>>,
       <<coffStart + 16, LE(240, 2)>>,
       <<coffStart + 18, LE(\h22, 2)>>,
       \* optional header (PE32+)
       <<optStart + 0, LE(\h20B, 2)>>,
       <<optStart + 2, <<1>>>>,
       <<optStart + 3, <<0>>>>,
       <<optStart + 4, LE(\h200, 4)>>,
       <<optStart + 8, LE(0, 4)>>,
       <<optStart + 12, LE(0, 4)>>,
       <<optStart + 16, LE(\h1000, 4)>>,
       <<optStart + 20, LE(\h1000, 4)>>,
       <<optStart + 24, U64(0, 1, \h4000, 0)>>,
       <<optStart + 32, LE(\h1000, 4)>>,
       <<optStart + 36, LE(\h200, 4)>>,
       <<optStart + 40, LE(6, 2)>>,
       <<optStart + 42, LE(0, 2)>>,
       <<optStart + 44, LE(0, 2)>>,
       <<optStart + 46, LE(0, 2)>>,
       <<optStart + 48, LE(6, 2)>>,
       <<optStart + 50, LE(0, 2)>>,
       <<optStart + 52, LE(0, 4)>>,
       <<optStart + 56, LE(\h2000, 4)>>,
       <<optStart + 60, LE(\h200, 4)>>,
       <<optStart + 64, LE(0, 4)>>,
       <<optStart + 68, LE(3, 2)>>,
       <<optStart + 70, LE(\h8160, 2)>>,
       <<optStart + 72, LE(\h100000, 8)>>,
       <<optStart + 80, LE(\h1000, 8)>>,
       <<optStart + 88, LE(\h100000, 8)>>,
       <<optStart + 96, LE(\h1000, 8)>>,
       <<optStart + 104, LE(0, 4)>>,
       <<optStart + 108, LE(16, 4)>>,
       \* section header
       <<sectStart, peSectionName>>,
       <<sectStart + 8, LE(\h1000, 4)>>,
       <<sectStart + 12, LE(\h1000, 4)>>,
       <<sectStart + 16, LE(\h200, 4)>>,
       <<sectStart + 20, LE(\h200, 4)>>,
       <<sectStart + 24, LE(0, 4)>>,
       <<sectStart + 28, LE(0, 4)>>,
       <<sectStart + 32, LE(0, 2)>>,
       <<sectStart + 34, LE(0, 2)>>,
       <<sectStart + 36, U32(\h6000, \h0020)>>,
       \* minimal code at 0x200
       <<\h200, <<\h31>>>>,
       <<\h201, <<\hC0>>>>,
       <<\h202, <<\hC3>>>> >>

\* the stores applied to a buffer, first to last: a byte holds what the last
\* store that covers it wrote
ApplyWrites(buf, ws) ==
    LET ends == {ws[j][1] + Len(ws[j][2]) : j \in 1..Len(ws)}
        end == Min(Len(buf), CHOOSE e \in ends \cup {0} : \A x \in ends : x <= e)
        covers(j, k) == k > ws[j][1] /\ k <= ws[j][1] + Len(ws[j][2])
        last(k) == CHOOSE j \in 1..Len(ws) :
                       /\ covers(j, k)
                       /\ \A i \in (j + 1)..Len(ws) : ~covers(i, k)
    IN  [k \in 1..end |->
            IF \E j \in 1..Len(ws) : covers(j, k) THEN ws[last(k)][2][k - ws[last(k)][1]]
            ELSE buf[k]]
        \o SubSeq(buf, end + 1, Len(buf))

writePEHeader(buf, a) == ApplyWrites(buf, peWrites(a))

-----------------------------------------------------------------------------
\* replaceAll, indexOf (ape.go:623-642)

indexOf(s, substr) ==
    LET hits == {i \in 0..(Len(s) - Len(substr)) : Slice(s, i, i + Len(substr)) = substr}
    IN  IF hits = {} THEN -1 ELSE CHOOSE i \in hits : \A j \in hits : i <= j

RECURSIVE replaceAll(_, _, _)
replaceAll(s, old, new) ==
    LET i == indexOf(s, old)
    IN  IF i < 0 THEN s
        ELSE replaceAll(Slice(s, 0, i) \o new \o Slice(s, i + Len(old), Len(s)), old, new)

-----------------------------------------------------------------------------
\* makeAPEHeader (ape.go:132-420), block by block

\* elfOffset := uint64(apeHeaderSize)
elfOffset == ToU64(apeHeaderSize)

\* pageSize
pageSizeOf(a) == IF a = "ARM64" THEN pageSize16K ELSE pageSize4K

\* machoOffset placed 256 bytes after the start of the script
machoOffsetOf_insideScript(a) == IF a = "AMD64" THEN \h400 + \h100 ELSE 0

\* machoOffset, machoSize (ape.go:155-162)
machoOffsetOf(a) == IF a = "AMD64" THEN \h1000 ELSE 0

machoSize == Len(machoHeader)

\* apeLoaderOffset, apeLoaderSize (ape.go:166-175)
apeLoaderOffsetOf(gz) == IF Len(gz) > 0 THEN \h8000 ELSE 0

apeLoaderSize == Len(apeLoaderGz)

\* scriptOffset := 0x400
scriptOffset == 1024

\* a dd statement whose skip is the byte offset
ddStatement_skipInBytes(prefix, mOff, mSize) ==
    LET bs == 8
        count == (mSize + bs - 1) \div bs
    IN  prefix \o Decimal(bs) \o scriptDdSkip \o Decimal(mOff)
        \o scriptDdCount \o Decimal(count) \o scriptDdTail

\* fmt.Fprintf of a dd statement (ape.go:258-261, 288-291)
ddStatement(prefix, mOff, mSize) ==
    LET bs == 8
        skip == mOff \div bs
        count == (mSize + bs - 1) \div bs
    IN  prefix \o Decimal(bs) \o scriptDdSkip \o Decimal(skip)
        \o scriptDdCount \o Decimal(count) \o scriptDdTail

\* the script text written to the bytes.Buffer (ape.go:230-358)
buildScript(a, emb, mOff, mSize) ==
    scriptTerminator \o scriptUname
    \o (IF a = "AMD64"
        THEN scriptAmd64Open \o encodePrintf(emb) \o scriptPrintfClose \o scriptCloseFd2
             \o (IF mSize > 0 THEN ddStatement(scriptDdGuarded, mOff, mSize) ELSE <<>>)
             \o scriptAmd64Rosetta \o encodePrintf(emb) \o scriptPrintfClose
             \o scriptCloseFd4
             \o (IF mSize > 0 THEN ddStatement(scriptDdPlain, mOff, mSize) ELSE <<>>)
             \o scriptAmd64Close
        ELSE IF a = "ARM64"
        THEN scriptArm64Open \o encodePrintf(emb) \o scriptPrintfClose \o scriptArm64Close
        ELSE <<>>)
    \o scriptWindows

\* only the offset placeholder replaced
fillPlaceholders_offsetOnly(a, s, gz) ==
    IF a = "ARM64" /\ Len(gz) > 0
    THEN replaceAll(s, placeholderOffset, Decimal(apeLoaderOffsetOf(gz)))
    ELSE s

\* placeholder replacement for ARM64 with a loader (ape.go:361-370)
fillPlaceholders(a, s, gz) ==
    IF a = "ARM64" /\ Len(gz) > 0
    THEN replaceAll(replaceAll(s, placeholderOffset, Decimal(apeLoaderOffsetOf(gz))),
                    placeholderSize, Decimal(Len(gz)))
    ELSE s

\* magic and the newline after it (ape.go:198-199)
writeMagic(h) == Copy(Copy(h, 0, apeMagic), 8, <<10>>)

\* spaces inside the quoted string and the closing quote (ape.go:202-207)
writeQuoteBody_from8(h) == Copy(Copy(h, 8, [k \in 1..(\h2C - 8) |-> 32]), \h2C, <<39>>)

\* the spaces without the closing quote
writeQuoteBody_unclosed(h) == Copy(h, 9, [k \in 1..(\h2C - 9) |-> 32])

writeQuoteBody(h) == Copy(Copy(h, 9, [k \in 1..(\h2C - 9) |-> 32]), \h2C, <<39>>)

\* heredoc opener at 0x2D (ape.go:212-213)
writeHeredocOpener(h) == Copy(h, \h2D, heredocOpener)

\* e_lfanew (ape.go:217)
writeLfanew_bigEndian(h) == Copy(h, \h3C, <<0, 0, 0, \h80>>)

writeLfanew(h) == Copy(h, \h3C, LE(\h80, 4))

\* '#' filler 0x40..0x7F (ape.go:221-223)
writeFiller(h) == Copy(h, \h40, [k \in 1..(\h80 - \h40) |-> 35])

\* newline before the script (ape.go:398-400)
writeNewlineBeforeScript_skipped(h) == h

writeNewlineBeforeScript(h) == Copy(h, scriptOffset - 1, <<10>>)

\* padding loop without the two tests that skip the embedded regions
padHeader_overRegions(h, scriptEnd, mOff, mSize, lOff, lSize) ==
    [k \in 1..Len(h) |-> IF k - 1 >= scriptEnd /\ h[k] = 0 THEN 10 ELSE h[k]]

\* padding loop (ape.go:404-417)
padHeader(h, scriptEnd, mOff, mSize, lOff, lSize) ==
    [k \in 1..Len(h) |->
        LET i == k - 1
        IN  IF i < scriptEnd THEN h[k]
            ELSE IF mSize > 0 /\ i >= mOff /\ i < mOff + mSize THEN h[k]
            ELSE IF lSize > 0 /\ i >= lOff /\ i < lOff + lSize THEN h[k]
            ELSE IF h[k] = 0 THEN 10
            ELSE h[k]]

-----------------------------------------------------------------------------
\* Input files: what the linker may have left at the output path.

\* length of a generated ELF: header, MaxPhnum full entries, payload
ElfLen == 64 + MaxPhnum * 56 + PayloadLen

\* payload bytes, all different from their neighbours
ElfFiller(n) == [k \in 1..n |-> (k * 7 + 3) % 256]

\* an Elf64_Phdr: p_type, p_flags, p_offset, p_vaddr, p_paddr, p_filesz,
\* p_memsz, p_align
MkPhdr(ptype, poffset, vaddr, filesz) ==
    LE(ptype, 4) \o LE(5, 4) \o poffset \o vaddr \o vaddr \o filesz \o filesz \o ToU64(4096)

RECURSIVE PlacePhdrs(_, _, _, _, _)
PlacePhdrs(buf, phoff, phentsize, phdrs, i) ==
    IF i > Len(phdrs) THEN buf
    ELSE PlacePhdrs(Copy(buf, phoff + (i - 1) * phentsize, phdrs[i]),
                    phoff, phentsize, phdrs, i + 1)

\* an ELF64 file of n bytes with the given header fields and program headers
MkElf(n, machine, entry, phoff, phentsize, phdrs) ==
    LET hdr == elfMagic \o <<elfClass64, elfDataLSB, 1, 0>> \o Zeros(8)
               \o LE(elfTypeExec, 2) \o LE(machine, 2) \o LE(1, 4)
               \o entry \o ToU64(phoff) \o ToU64(\h1234) \o LE(0, 4)
               \o LE(64, 2) \o LE(phentsize, 2) \o LE(Len(phdrs), 2)
               \o LE(64, 2) \o LE(3, 2) \o LE(2, 2)
    IN  PlacePhdrs(Copy(ElfFiller(n), 0, hdr), phoff, phentsize, phdrs, 1)

\* sequences of p_type values (1 = PT_LOAD, 6 = PT_PHDR), at most n long
RECURSIVE TypeSeqs(_)
TypeSeqs(n) ==
    IF n = 0 THEN {<<>>}
    ELSE LET shorter == TypeSeqs(n - 1)
         IN  shorter \cup {Append(s, t) : s \in {x \in shorter : Len(x) = n - 1}, t \in {1, 6}}

\* entry point, p_vaddr and p_offset of the first program header, p_filesz
FieldVariants ==
    { [entry |-> U64(0, 1, 0, \h0050), vaddr |-> machoVMAddr, poff |-> ToU64(0),
       filesz |-> ToU64(ElfLen)],
      [entry |-> U64(0, 0, \h0040, \h0090), vaddr |-> U64(0, 0, \h0040, \h0040),
       poff |-> ToU64(64), filesz |-> ToU64(ElfLen - 64)],
      [entry |-> U64(0, 1, 0, \h1000), vaddr |-> machoVMAddr, poff |-> ToU64(0),
       filesz |-> ToU64(ElfLen)],
      [entry |-> U64(0, 0, 0, \h1000), vaddr |-> machoVMAddr,
       poff |-> U64(\hFFFF, \hFFFF, \hFFFF, \hFFF0), filesz |-> ToU64(0)] }

\* program header i of a variant: each one page after the previous
PhdrsOf(types, v) ==
    [i \in 1..Len(types) |->
        MkPhdr(types[i], AddU64(v.poff, ToU64((i - 1) * 4096)),
               AddU64(v.vaddr, ToU64((i - 1) * 4096)), v.filesz)]

\* <<e_phoff, e_phentsize>>: the ELF64 layout, degenerate entry sizes, a table
\* that runs off the end of the file
Layouts == {<<64, 56>>, <<64, 16>>, <<64, 8>>, <<64, 4>>, <<64, 0>>, <<ElfLen - 60, 56>>}

\* the end-to-end scenario's file: one PT_LOAD at 0x100000000 mapping the file
ScenarioElf ==
    LET v == CHOOSE x \in FieldVariants : x.entry = U64(0, 1, 0, \h1000) /\ x.poff = ToU64(0)
    IN  MkElf(ElfLen, elfMachineAMD64, v.entry, 64, 56, PhdrsOf(<<1>>, v))

\* files for the whole pass: well-formed ELF64 files with up to MaxPhnum
\* program headers, a file that is too short, a file with another magic,
\* files at least 64 bytes long that start with the ELF magic and whose
\* program-header table does not fit in the file (the table's last entry
\* ends past the end, or e_phoff points past the end)
DriverFiles ==
    LET v == CHOOSE x \in FieldVariants : x.entry = U64(0, 0, \h0040, \h0090)
    IN  {MkElf(ElfLen, elfMachineAMD64, v.entry, 64, 56, PhdrsOf(ts, v)) : ts \in TypeSeqs(MaxPhnum)}
        \cup {ScenarioElf, Slice(ScenarioElf, 0, 63), Copy(ScenarioElf, 0, <<77, 90>>)}
        \cup {MkElf(ElfLen, elfMachineAMD64, v.entry, ElfLen - 60, 56, PhdrsOf(<<1, 1>>, v)),
              MkElf(ElfLen, elfMachineAMD64, v.entry, 16 * ElfLen, 56, PhdrsOf(<<1>>, v))}

\* files for the functions taken alone: every layout, type sequence and
\* variant, and entry points that together contain every byte value
FnFiles ==
    {MkElf(ElfLen, elfMachineAMD64, v.entry, l[1], l[2], PhdrsOf(ts, v)) :
        l \in Layouts, ts \in TypeSeqs(MaxPhnum), v \in FieldVariants}
    \cup {MkElf(ElfLen, elfMachineAMD64, [k \in 1..8 |-> 8 * j + k - 1], 64, 56, <<>>) :
            j \in 0..31}

Archs == {"AMD64", "ARM64"}

\* getApeLoaderSource (ape.go:646-685): the first path that is not empty
\* and that os.ReadFile reads ends the search (658-667); nothing is returned
\* when the data so found is empty (669-672), and its gzip stream otherwise
\* (675-684).  A candidate is [ok |-> os.ReadFile succeeds, data |-> its
\* bytes]; paths that are empty strings are candidates that are not ok.  The
\* stream of compress/gzip is written here as one gzip member whose data
\* stand in a single stored block: the 10-byte member header, the block
\* header (final, stored, LEN, NLEN), the data, CRC-32 and ISIZE.
getApeLoaderSource(paths) ==
    LET readable == {i \in 1..Len(paths) : paths[i].ok}
        sourceData == IF readable = {} THEN <<>>
                      ELSE paths[CHOOSE i \in readable : \A j \in readable : i <= j].data
        bits(v, n) == [k \in 1..n |-> (v \div (2 ^ (k - 1))) % 2]
        xor(a, b) == SubSeq([k \in 1..Len(a) |-> (a[k] + b[k]) % 2], 1, Len(a))
        poly == <<0, 0, 0, 0, 0, 1, 0, 0, 1, 1, 0, 0, 0, 0, 0, 1,
                  0, 0, 0, 1, 1, 1, 0, 1, 1, 0, 1, 1, 0, 1, 1, 1>>
        shift(c) == IF c[1] = 1 THEN xor(Tail(c) \o <<0>>, poly) ELSE Tail(c) \o <<0>>
        RECURSIVE shifts(_, _)
        shifts(c, n) == IF n = 0 \/ Len(c) = 0 THEN c ELSE shifts(shift(c), n - 1)
        RECURSIVE crc(_, _)
        crc(c, k) == IF k > Len(sourceData) \/ Len(c) = 0 THEN c
                     ELSE crc(shifts(xor(c, bits(sourceData[k], 8) \o [i \in 1..24 |-> 0]), 8),
                              k + 1)
        sum == xor(crc([i \in 1..32 |-> 1], 1), [i \in 1..32 |-> 1])
        byte(c, n) == c[8 * n + 1] + 2 * c[8 * n + 2] + 4 * c[8 * n + 3] + 8 * c[8 * n + 4]
                      + 16 * c[8 * n + 5] + 32 * c[8 * n + 6] + 64 * c[8 * n + 7]
                      + 128 * c[8 * n + 8]
    IN  IF Len(sourceData) = 0 THEN <<>>
        ELSE <<31, 139, 8, 0, 0, 0, 0, 0, 0, 255>>
             \o <<1>> \o LE(Len(sourceData), 2) \o LE(65535 - Len(sourceData), 2)
             \o sourceData
             \o [n \in 1..4 |-> byte(sum, n - 1)] \o LE(Len(sourceData), 4)

\* the candidates of a build: no file at all; the source "main;" only at
\* APE_LOADER_SOURCE; an empty file at the first path and the source at
\* the second; a one-line file at the first path and the source at the third
LoaderInputs ==
    LET none == [ok |-> FALSE, data |-> <<>>]
        file(d) == [ok |-> TRUE, data |-> d]
        main == <<109, 97, 105, 110, 59, 10>>
    IN  {<<none, none, none>>,
         <<none, none, file(main)>>,
         <<file(<<>>), file(main), none>>,
         <<file(<<10>>), none, file(main)>>}

\* permission bits the linker's output may carry (0775, 0700)
InitialModes == {509, 448}

-----------------------------------------------------------------------------
\* convertToAPE (ape.go:65-125), with makeAPEHeader inlined block by block.

\* The header buffer and the file's contents are kept in the state as pages
\* of PageLen bytes; Paged and Bytes convert to and from the byte sequence.
PageLen == 16 * 16

Paged(b) ==
    [p \in 1..((Len(b) + PageLen - 1) \div PageLen) |->
        SubSeq(b, (p - 1) * PageLen + 1, Min(p * PageLen, Len(b)))]

RECURSIVE JoinPages(_, _, _)
JoinPages(ps, lo, hi) ==
    IF lo > hi THEN <<>>
    ELSE IF lo = hi THEN ps[lo]
    ELSE JoinPages(ps, lo, (lo + hi) \div 2) \o JoinPages(ps, (lo + hi) \div 2 + 1, hi)

Bytes(ps) == JoinPages(ps, 1, Len(ps))

\* the script's run (host, sh, events, status, piped) starts once the pass
\* has produced the file
ShellIdle ==
    /\ host = [m |-> "x86_64", s |-> <<76, 105, 110, 117, 120>>, apps |-> FALSE]
    /\ sh = "idle"
    /\ events = <<>>
    /\ status = -1
    /\ piped = <<>>

env == <<headType, outfile, arch, loaderSource, inputFile, host, sh, events, status, piped>>

locals == <<embeddedElf, machoHeader, apeLoaderGz, scriptBytes>>

Init ==
    /\ \/ /\ headType = "Hcosmo" /\ outfile = "a.out"
          /\ arch \in Archs
          /\ loaderSource \in LoaderInputs
          /\ arch = "AMD64" => ~loaderSource[1].ok
          /\ inputFile \in DriverFiles
          /\ diskMode \in InitialModes
       \/ /\ \/ headType = "Hlinux" /\ outfile = "a.out"
             \/ headType = "Hcosmo" /\ outfile = ""
          /\ arch = "AMD64"
          /\ loaderSource = <<>>
          /\ inputFile = ScenarioElf
          /\ diskMode = 509
    /\ disk = Paged(inputFile)
    /\ elfData = <<>>
    /\ header = <<>>
    /\ embeddedElf = <<>>
    /\ machoHeader = <<>>
    /\ apeLoaderGz = <<>>
    /\ scriptBytes = <<>>
    /\ pc = "start"
    /\ outcome = "running"
    /\ ShellIdle

\* Exitf: the linker prints the message and exits
Exit(kind) == pc' = "exit" /\ outcome' = kind

\* ape.go:66-79: the two early returns, then os.ReadFile
ReadFile ==
    /\ pc = "start"
    /\ headType = "Hcosmo"
    /\ outfile # ""
    /\ \E ok \in BOOLEAN :
          IF ok THEN elfData' = Bytes(disk) /\ pc' = "validate" /\ outcome' = outcome
          ELSE elfData' = elfData /\ Exit("Io")
    /\ UNCHANGED <<env, locals, disk, diskMode, header>>

\* a validation that looks at the magic only
Validate_magicOnly ==
    /\ pc = "validate"
    /\ IF SubSeq(elfData, 1, Min(4, Len(elfData))) # elfMagic
       THEN Exit("NotElf")
       ELSE pc' = "create" /\ outcome' = outcome
    /\ UNCHANGED <<env, locals, disk, diskMode, elfData, header>>

\* ape.go:82-84
Validate ==
    /\ pc = "validate"
    /\ IF Len(elfData) < 64 \/ Slice(elfData, 0, 4) # elfMagic
       THEN Exit("NotElf")
       ELSE pc' = "create" /\ outcome' = outcome
    /\ UNCHANGED <<env, locals, disk, diskMode, elfData, header>>

\* ape.go:92-96: os.Create truncates the file and keeps its mode
Create ==
    /\ pc = "create"
    /\ \E ok \in BOOLEAN :
          IF ok THEN disk' = <<>> /\ pc' = "alloc" /\ outcome' = outcome
          ELSE disk' = disk /\ Exit("Io")
    /\ UNCHANGED <<env, locals, diskMode, elfData, header>>

\* ape.go:133-151
HdrAlloc ==
    /\ pc = "alloc"
    /\ header' = Paged(Zeros(apeHeaderSize))
    /\ embeddedElf' = makeEmbeddedElfHeader(elfData, elfOffset, pageSizeOf(arch), arch)
    /\ pc' = "macho"
    /\ UNCHANGED <<env, disk, diskMode, elfData, machoHeader, apeLoaderGz, scriptBytes, outcome>>

\* ape.go:154-162
HdrMacho ==
    /\ pc = "macho"
    /\ IF arch = "AMD64"
       THEN LET r == makeMachoHeader(elfData, elfOffset, Uint64At(elfData, 24))
            IN  IF r.panic
                THEN machoHeader' = machoHeader /\ Exit("panic")
                ELSE machoHeader' = r.bytes /\ pc' = "loader" /\ outcome' = outcome
       ELSE machoHeader' = machoHeader /\ pc' = "loader" /\ outcome' = outcome
    /\ UNCHANGED <<env, disk, diskMode, elfData, header, embeddedElf, apeLoaderGz, scriptBytes>>

\* ape.go:165-175
HdrLoader ==
    /\ pc = "loader"
    /\ apeLoaderGz' = IF arch = "ARM64" THEN getApeLoaderSource(loaderSource) ELSE apeLoaderGz
    /\ pc' = "magic"
    /\ UNCHANGED <<env, disk, diskMode, elfData, header, embeddedElf, machoHeader, scriptBytes,
                   outcome>>

\* a block of makeAPEHeader that only stores into header
HdrStore(from, to, h) ==
    /\ pc = from
    /\ header' = Paged(h)
    /\ pc' = to
    /\ UNCHANGED <<env, locals, disk, diskMode, elfData, outcome>>

\* ape.go:198-199
HdrMagic == HdrStore("magic", "quote", writeMagic(Bytes(header)))

\* ape.go:202-207
HdrQuote == HdrStore("quote", "heredoc", writeQuoteBody(Bytes(header)))

\* ape.go:212-213
HdrHeredoc == HdrStore("heredoc", "lfanew", writeHeredocOpener(Bytes(header)))

\* ape.go:217
HdrLfanew == HdrStore("lfanew", "filler", writeLfanew(Bytes(header)))

\* ape.go:221-223
HdrFiller == HdrStore("filler", "script", writeFiller(Bytes(header)))

\* ape.go:230-370
HdrScript ==
    /\ pc = "script"
    /\ scriptBytes' = fillPlaceholders(arch,
                         buildScript(arch, embeddedElf, machoOffsetOf(arch), machoSize),
                         apeLoaderGz)
    /\ pc' = "place"
    /\ UNCHANGED <<env, disk, diskMode, elfData, header, embeddedElf, machoHeader, apeLoaderGz,
                   outcome>>

\* ape.go:373-377
HdrPlaceScript ==
    /\ pc = "place"
    /\ IF Len(scriptBytes) > apeHeaderSize - scriptOffset
       THEN header' = header /\ Exit("TooLarge")
       ELSE header' = Paged(Copy(Bytes(header), scriptOffset, scriptBytes)) /\ pc' = "embed"
            /\ outcome' = outcome
    /\ UNCHANGED <<env, locals, disk, diskMode, elfData>>

\* ape.go:380-385
HdrEmbedLoader ==
    /\ pc = "embed"
    /\ IF arch = "ARM64" /\ apeLoaderSize > 0
       THEN IF apeLoaderOffsetOf(apeLoaderGz) + apeLoaderSize > apeHeaderSize
            THEN header' = header /\ Exit("LoaderTooLarge")
            ELSE header' = Paged(Copy(Bytes(header), apeLoaderOffsetOf(apeLoaderGz), apeLoaderGz))
                 /\ pc' = "pe" /\ outcome' = outcome
       ELSE header' = header /\ pc' = "pe" /\ outcome' = outcome
    /\ UNCHANGED <<env, locals, disk, diskMode, elfData>>

\* ape.go:389
HdrPE == HdrStore("pe", "placeMacho", writePEHeader(Bytes(header), arch))

\* ape.go:392-394
HdrPlaceMacho ==
    HdrStore("placeMacho", "newline",
             IF machoSize > 0 /\ machoOffsetOf(arch) + machoSize <= apeHeaderSize
             THEN Copy(Bytes(header), machoOffsetOf(arch), machoHeader)
             ELSE Bytes(header))

\* ape.go:398-400
HdrNewline == HdrStore("newline", "pad", writeNewlineBeforeScript(Bytes(header)))

\* ape.go:404-419
HdrPad ==
    HdrStore("pad", "writeHeader",
             padHeader(Bytes(header), scriptOffset + Len(scriptBytes), machoOffsetOf(arch), machoSize,
                       apeLoaderOffsetOf(apeLoaderGz), apeLoaderSize))

\* (*os.File).Write: all of the bytes, or an error after some of them
FileWrite(data, from, to) ==
    /\ pc = from
    /\ \E ok \in BOOLEAN :
          IF ok THEN disk' = Paged(Bytes(disk) \o data) /\ pc' = to /\ outcome' = outcome
          ELSE disk' = Paged(Bytes(disk) \o Slice(data, 0, Len(data) \div 2)) /\ Exit("Io")
    /\ UNCHANGED <<env, locals, diskMode, elfData, header>>

\* ape.go:101-103
WriteHeader == FileWrite(Bytes(header), "writeHeader", "patch")

\* ape.go:105-114
PatchOffsets ==
    /\ pc = "patch"
    /\ LET r == patchLoop(elfData, Uint64At(elfData, 32), Uint16At(elfData, 54),
                          Uint16At(elfData, 56), 0)
       IN  IF r.panic
           THEN elfData' = r.data /\ Exit("panic")
           ELSE elfData' = r.data /\ pc' = "writeElf" /\ outcome' = outcome
    /\ UNCHANGED <<env, locals, disk, diskMode, header>>

\* ape.go:117-119
WriteElf == FileWrite(elfData, "writeElf", "chmod")

\* the mode of os.Chmod(outfile, 0755)
chmodMode_noExec == 493 - 73

chmodMode == 493

\* ape.go:122-124
Chmod ==
    /\ pc = "chmod"
    /\ \E ok \in BOOLEAN :
          IF ok THEN diskMode' = chmodMode /\ pc' = "done" /\ outcome' = "ok"
          ELSE diskMode' = diskMode /\ Exit("Io")
    /\ UNCHANGED <<env, locals, disk, elfData, header>>

Next ==
    \/ ReadFile
    \/ Validate
    \/ Create
    \/ HdrAlloc
    \/ HdrMacho
    \/ HdrLoader
    \/ HdrMagic
    \/ HdrQuote
    \/ HdrHeredoc
    \/ HdrLfanew
    \/ HdrFiller
    \/ HdrScript
    \/ HdrPlaceScript
    \/ HdrEmbedLoader
    \/ HdrPE
    \/ HdrPlaceMacho
    \/ HdrNewline
    \/ HdrPad
    \/ WriteHeader
    \/ PatchOffsets
    \/ WriteElf
    \/ Chmod

Spec == Init /\ [][Next]_vars

-----------------------------------------------------------------------------
\* The functions taken alone, on a wider set of input files: the embedded
\* ELF header, the Mach-O header (AMD64), the printf encoding of the embedded
\* header, and the p_offset loop, applied in the order the pass applies them.

InitFn ==
    /\ headType = "Hcosmo"
    /\ outfile = "a.out"
    /\ arch \in Archs
    /\ loaderSource = <<>>
    /\ inputFile \in FnFiles
    /\ disk = Paged(inputFile)
    /\ diskMode = 509
    /\ elfData = inputFile
    /\ header = <<>>
    /\ embeddedElf = <<>>
    /\ machoHeader = <<>>
    /\ apeLoaderGz = <<>>
    /\ scriptBytes = <<>>
    /\ pc = "fnEmbedded"
    /\ outcome = "running"
    /\ ShellIdle

FnEmbedded ==
    /\ pc = "fnEmbedded"
    /\ embeddedElf' = makeEmbeddedElfHeader(elfData, elfOffset, pageSizeOf(arch), arch)
    /\ pc' = "fnMacho"
    /\ UNCHANGED <<env, disk, diskMode, elfData, header, machoHeader, apeLoaderGz, scriptBytes,
                   outcome>>

FnMacho ==
    /\ pc = "fnMacho"
    /\ arch = "AMD64"
    /\ LET r == makeMachoHeader(elfData, elfOffset, Uint64At(elfData, 24))
       IN  IF r.panic
           THEN machoHeader' = machoHeader /\ Exit("panic")
           ELSE machoHeader' = r.bytes /\ pc' = "fnEncode" /\ outcome' = outcome
    /\ UNCHANGED <<env, disk, diskMode, elfData, header, embeddedElf, apeLoaderGz, scriptBytes>>

FnSkipMacho ==
    /\ pc = "fnMacho"
    /\ arch # "AMD64"
    /\ pc' = "fnEncode"
    /\ UNCHANGED <<env, locals, disk, diskMode, elfData, header, outcome>>

FnEncode ==
    /\ pc = "fnEncode"
    /\ scriptBytes' = encodePrintf(embeddedElf)
    /\ pc' = "fnPatch"
    /\ UNCHANGED <<env, disk, diskMode, elfData, header, embeddedElf, machoHeader, apeLoaderGz,
                   outcome>>

FnPatch ==
    /\ pc = "fnPatch"
    /\ LET r == patchLoop(elfData, Uint64At(elfData, 32), Uint16At(elfData, 54),
                          Uint16At(elfData, 56), 0)
       IN  IF r.panic
           THEN elfData' = r.data /\ Exit("panic")
           ELSE elfData' = r.data /\ pc' = "fnDone" /\ outcome' = "ok"
    /\ UNCHANGED <<env, locals, disk, diskMode, header>>

NextFn == FnEmbedded \/ FnMacho \/ FnSkipMacho \/ FnEncode \/ FnPatch

SpecFn == InitFn /\ [][NextFn]_vars

-----------------------------------------------------------------------------
\* Properties.

\* the fields of the input file's ELF header
InPhoff == IndexOf64(Uint64At(inputFile, 32))

InPhentsize == Uint16At(inputFile, 54)

InPhnum == Uint16At(inputFile, 56)

InEntry == Uint64At(inputFile, 24)

\* the program-header table lies inside the input file
TableInFile == InPhoff >= 0 /\ InPhoff + InPhnum * InPhentsize <= Len(inputFile)

\* position of program header i and of its p_offset field
PhdrPos(i) == InPhoff + i * InPhentsize

FieldPos(i) == PhdrPos(i) + 8

InField(p) == \E i \in 0..(InPhnum - 1) : FieldPos(i) <= p /\ p < FieldPos(i) + 8

\* 65,536 as a uint64
Shift64 == <<0, 0, 1, 0, 0, 0, 0, 0>>

\* payload out is the input with every p_offset shifted and nothing else changed
ShiftedPayload(out) ==
    /\ Len(out) = Len(inputFile)
    /\ \A i \in 0..(InPhnum - 1) :
          /\ FieldPos(i) + 8 <= Len(inputFile)
          /\ Uint64At(out, FieldPos(i)) = AddU64(Uint64At(inputFile, FieldPos(i)), Shift64)
    /\ \A p \in 0..(Len(inputFile) - 1) : InField(p) \/ out[p + 1] = inputFile[p + 1]

\* C1 as stated: for every input whose program-header table lies inside the
\* file, the payload the loop leaves is the input with each p_offset field
\* holding its input value plus 65,536 and every other byte unchanged.
C1_AsStated == (pc = "fnDone" /\ TableInFile) => ShiftedPayload(elfData)

\* C1 (amended): the same, for inputs whose p_offset fields do not overlap
\* (e_phentsize >= 8, or at most one program header).
C1_PatchShiftsOffsets ==
    (pc = "fnDone" /\ TableInFile /\ (InPhentsize >= 8 \/ InPhnum <= 1))
        => ShiftedPayload(elfData)

\* two ELF64 program headers, the first p_offset wrapping around 2^64
C1_Witness ==
    /\ pc = "fnDone" /\ TableInFile /\ InPhentsize = 56 /\ InPhnum = 2
    /\ Uint64At(inputFile, FieldPos(0)) = <<240, 255, 255, 255, 255, 255, 255, 255>>
    /\ Uint64At(elfData, FieldPos(0)) = <<240, 255, 0, 0, 0, 0, 0, 0>>

\* C2: whenever the pass completes, the file is the 65,536-byte header
\* followed by the offset-patched ELF, 65,536 + len(input) bytes long, with
\* mode 0755 (owner-execute set).
C2_OutputFile ==
    outcome = "ok" =>
        LET file == Bytes(disk)
        IN  /\ Len(Bytes(header)) = 65536
            /\ Len(file) = 65536 + Len(inputFile)
            /\ Slice(file, 0, 65536) = Bytes(header)
            /\ Slice(file, 65536, Len(file)) = elfData
            /\ ShiftedPayload(Slice(file, 65536, Len(file)))
        /\ diskMode = 493
        /\ (diskMode \div 64) % 2 = 1

C2_Witness ==
    /\ outcome = "ok" /\ arch = "ARM64" /\ InPhnum = 2
    /\ Len(Bytes(disk)) = 65536 + ElfLen /\ diskMode = 493

\* the header is complete (makeAPEHeader has returned)
HeaderBuilt == pc \in {"writeHeader", "patch", "writeElf", "chmod", "done"}

\* byte at 0-based offset p of buffer h
At(h, p) == h[p + 1]

\* the text "__APE__" and a newline
TerminatorLine == <<95, 95, 65, 80, 69, 95, 95, 10>>

\* offset s starts a line of the heredoc body opened at 0x3C
BodyLineStart(h, s) == s = \h3C \/ At(h, s - 1) = 10

\* C3: the heredoc opened at 0x2D..0x3B is terminated first by the script
\* line at 0x400: byte 0x3FF is a newline, 0x400..0x407 are "__APE__\n", no
\* line starting in [0x3C, 0x400) is "__APE__", and every store of the PE
\* builder falls in [0x80, 0x400), inside the heredoc body.
C3_HeredocClosesAtScript ==
    HeaderBuilt =>
        LET h == Slice(Bytes(header), 0, \h408)
        IN  /\ Slice(h, \h2D, \h3C)
                  = <<10, 58, 32, 60, 60, 39, 95, 95, 65, 80, 69, 95, 95, 39, 10>>
            /\ At(h, \h3FF) = 10
            /\ Slice(h, \h400, \h408) = TerminatorLine
            /\ \A s \in \h3C..\h3FF : BodyLineStart(h, s) => Slice(h, s, s + 8) # TerminatorLine
            /\ \A k \in 1..Len(peWrites(arch)) :
                  /\ peWrites(arch)[k][1] >= \h80
                  /\ peWrites(arch)[k][1] + Len(peWrites(arch)[k][2]) <= \h400
                  /\ Slice(h, peWrites(arch)[k][1],
                           peWrites(arch)[k][1] + Len(peWrites(arch)[k][2])) = peWrites(arch)[k][2]

C3_Witness ==
    /\ HeaderBuilt /\ arch = "ARM64" /\ Len(apeLoaderGz) > 0
    /\ Slice(Bytes(header), \h400, \h408) = TerminatorLine
    /\ Slice(Bytes(header), \h80, \h84) = <<80, 69, 0, 0>>

\* the blocks of makeAPEHeader after the one that stores the magic
AfterMagic ==
    pc \in {"quote", "heredoc", "lfanew", "filler", "script", "place", "embed", "pe",
            "placeMacho", "newline", "pad", "writeHeader", "patch", "writeElf", "chmod", "done"}

\* C4: bytes 0..7 are MZqFpD=' and byte 8 is a newline, with no zero byte at
\* or before that first newline, in the produced header and after every
\* later store of the assembler.
C4_MagicLine ==
    AfterMagic =>
        LET h == Bytes(header)
        IN  /\ Len(h) = 65536
            /\ Slice(h, 0, 9) = <<77, 90, 113, 70, 112, 68, 61, 39, 10>>
            /\ \A p \in 0..8 : At(h, p) # 0
            /\ \A p \in 0..7 : At(h, p) # 10

C4_Witness ==
    /\ pc = "done" /\ arch = "AMD64"
    /\ Slice(Bytes(header), 0, 9) = <<77, 90, 113, 70, 112, 68, 61, 39, 10>>

\* C5: the u32 at 0x3C is 0x80, the four bytes it points to are PE\0\0, and
\* the 15-byte heredoc opener at 0x2D..0x3B is intact next to it.
C5_LfanewPointsToPE ==
    HeaderBuilt =>
        LET h == Bytes(header)
            target == At(h, \h3C) + 256 * At(h, \h3D) + 65536 * At(h, \h3E)
        IN  /\ Slice(h, \h3C, \h40) = <<128, 0, 0, 0>>
            /\ At(h, \h3F) = 0
            /\ target = \h80
            /\ Slice(h, target, target + 4) = <<80, 69, 0, 0>>
            /\ Len(heredocOpener) = 15
            /\ \h2D + Len(heredocOpener) = \h3C
            /\ Slice(h, \h2D, \h2D + Len(heredocOpener)) = heredocOpener

C5_Witness ==
    /\ HeaderBuilt /\ arch = "AMD64"
    /\ Slice(Bytes(header), \h3B, \h40) = <<10, 128, 0, 0, 0>>

\* C6: the embedded ELF header is exactly the 64 bytes below, with e_entry,
\* e_phentsize and e_phnum taken from the input and e_phoff = input + 65,536.
C6_EmbeddedElfHeader ==
    pc \in {"fnMacho", "fnEncode", "fnPatch", "fnDone"} =>
        embeddedElf =
            <<127, 69, 76, 70, 2, 1, 1, 9>> \o <<0, 0, 0, 0, 0, 0, 0, 0>>
            \o <<2, 0>> \o (IF arch = "ARM64" THEN <<183, 0>> ELSE <<62, 0>>)
            \o <<1, 0, 0, 0>>
            \o Slice(inputFile, 24, 32)
            \o AddU64(Slice(inputFile, 32, 40), Shift64)
            \o <<0, 0, 0, 0, 0, 0, 0, 0>> \o <<0, 0, 0, 0>> \o <<64, 0>>
            \o Slice(inputFile, 54, 58)
            \o <<64, 0>> \o <<0, 0>> \o <<0, 0>>

C6_Witness ==
    /\ pc = "fnDone" /\ arch = "ARM64" /\ Len(embeddedElf) = 64
    /\ Slice(embeddedElf, 32, 40) = <<64, 0, 1, 0, 0, 0, 0, 0>>
    /\ InPhnum = 2

\* the rule of C7 for one byte
OctalDigit(c) == c >= 48 /\ c <= 55

EncodingOf(b, e) ==
    IF b = 39 THEN e = <<39, 92, 39, 39>>
    ELSE IF b >= 32 /\ b <= 126 /\ b # 92 THEN e = <<b>>
    ELSE /\ Len(e) = 4 /\ e[1] = 92
         /\ OctalDigit(e[2]) /\ OctalDigit(e[3]) /\ OctalDigit(e[4])
         /\ 64 * (e[2] - 48) + 8 * (e[3] - 48) + (e[4] - 48) = b

\* text is the encodings of the bytes bs, one after the other
RECURSIVE EncodesAll(_, _)
EncodesAll(text, bs) ==
    IF bs = <<>> THEN text = <<>>
    ELSE LET n == IF Head(bs) >= 32 /\ Head(bs) <= 126 /\ Head(bs) # 92 /\ Head(bs) # 39
                  THEN 1 ELSE 4
         IN  /\ Len(text) >= n
             /\ EncodingOf(Head(bs), SubSeq(text, 1, n))
             /\ EncodesAll(SubSeq(text, n + 1, Len(text)), Tail(bs))

\* every backslash of text starts a three-digit octal escape or is the one
\* inside '\''
BackslashesAreOctal(text) ==
    \A p \in 1..Len(text) :
        text[p] = 92 =>
            \/ /\ p + 3 <= Len(text)
               /\ OctalDigit(text[p + 1]) /\ OctalDigit(text[p + 2]) /\ OctalDigit(text[p + 3])
            \/ /\ p > 1 /\ p + 2 <= Len(text)
               /\ text[p - 1] = 39 /\ text[p + 1] = 39 /\ text[p + 2] = 39

FirstLoad ==
    LET loads == {i \in 0..(InPhnum - 1) :
                    /\ PhdrPos(i) + 24 <= Len(inputFile)
                    /\ Slice(inputFile, PhdrPos(i), PhdrPos(i) + 4) = <<1, 0, 0, 0>>}
    IN  IF loads = {} THEN -1 ELSE CHOOSE i \in loads : \A j \in loads : i <= j

FirstLoadOffset == Uint64At(inputFile, PhdrPos(FirstLoad) + 8)

FirstLoadVaddr == Uint64At(inputFile, PhdrPos(FirstLoad) + 16)

FirstLoadFilesz == Uint64At(inputFile, PhdrPos(FirstLoad) + 32)

\* 0x100000000 as a uint64
VmBase == <<0, 0, 0, 0, 1, 0, 0, 0>>

\* the Mach-O header has been built from the input
MachoBuilt == arch = "AMD64" /\ pc \in {"fnEncode", "fnPatch", "fnDone"}

\* the u32 at offset p of the Mach-O header, when it is below 2^31
MachoU32(p) ==
    machoHeader[p + 1] + 256 * machoHeader[p + 2] + 65536 * machoHeader[p + 3]
    + 16777216 * machoHeader[p + 4]

\* offset of the second load command (LC_UNIXTHREAD) and of its thread state
ThreadCmdPos == 32 + MachoU32(32 + 4)

ThreadStatePos == ThreadCmdPos + 16

MachoRip == Uint64At(machoHeader, ThreadStatePos + 128)

\* C8: rip (thread-state offset 128 of LC_UNIXTHREAD) is
\* 0x100000000 + (e_entry - p_vaddr of the first PT_LOAD) mod 2^64, hence
\* e_entry itself when that p_vaddr is 0x100000000.
C8_RipRebased ==
    (MachoBuilt /\ TableInFile /\ FirstLoad >= 0) =>
        /\ MachoU32(ThreadCmdPos) = 5
        /\ MachoRip = AddU64(VmBase, SubU64(InEntry, FirstLoadVaddr))
        /\ FirstLoadVaddr = VmBase => MachoRip = InEntry

\* the first PT_LOAD is the second program header and is not at 0x100000000
C8_Witness ==
    /\ MachoBuilt /\ TableInFile /\ FirstLoad = 1 /\ InPhentsize = 56
    /\ FirstLoadVaddr # VmBase
    /\ MachoRip # InEntry

\* a < b on uint64
RECURSIVE LtBytes(_, _, _)
LtBytes(a, b, k) ==
    IF k = 0 THEN FALSE
    ELSE IF a[k] # b[k] THEN a[k] < b[k]
    ELSE LtBytes(a, b, k - 1)

LtU64(a, b) == LtBytes(a, b, 8)

\* a well-formed ELF64 input whose entry point lies in the file-backed part
\* of its first PT_LOAD segment
EntryInFirstLoad ==
    /\ TableInFile /\ InPhentsize = 56 /\ FirstLoad >= 0
    /\ ~LtU64(InEntry, FirstLoadVaddr)
    /\ LtU64(SubU64(InEntry, FirstLoadVaddr), FirstLoadFilesz)
    /\ IndexOf64(FirstLoadOffset) >= 0 /\ IndexOf64(FirstLoadFilesz) >= 0
    /\ IndexOf64(FirstLoadOffset) + IndexOf64(FirstLoadFilesz) <= Len(inputFile)

\* C9 as stated: the segment command maps the payload (fileoff 65,536,
\* vmsize = filesize = len(ELF)) at 0x100000000 with R|X, rip lies in the
\* mapping, and the file byte rip addresses under it is the file byte e_entry
\* addresses under the shifted first PT_LOAD.
C9_AsStated ==
    (MachoBuilt /\ EntryInFirstLoad) =>
        /\ Uint64At(machoHeader, 32 + 24) = VmBase
        /\ Uint64At(machoHeader, 32 + 32) = ToU64(Len(inputFile))
        /\ Uint64At(machoHeader, 32 + 40) = Shift64
        /\ Uint64At(machoHeader, 32 + 48) = ToU64(Len(inputFile))
        /\ MachoU32(32 + 56) = 5 /\ MachoU32(32 + 60) = 5
        /\ ~LtU64(MachoRip, VmBase)
        /\ LtU64(SubU64(MachoRip, VmBase), ToU64(Len(inputFile)))
        /\ AddU64(Shift64, SubU64(MachoRip, VmBase))
              = AddU64(AddU64(FirstLoadOffset, Shift64), SubU64(InEntry, FirstLoadVaddr))

\* C10 as stated: the Mach-O header is 288 bytes; the bytes after the 32-byte
\* mach_header_64 total sizeofcmds = 256, and each load command is as long
\* as its cmdsize (72; 184 = 16 + 42*4).
C10_AsStated ==
    MachoBuilt =>
        /\ Len(machoHeader) = 288
        /\ MachoU32(16) = 2
        /\ Len(machoHeader) - 32 = MachoU32(20)
        /\ MachoU32(20) = 256
        /\ MachoU32(32 + 4) = 72
        /\ MachoU32(ThreadCmdPos + 4) = 184
        /\ MachoU32(ThreadCmdPos + 12) = 42
        /\ Len(machoHeader) - ThreadCmdPos = MachoU32(ThreadCmdPos + 4)

-----------------------------------------------------------------------------
\* The generated script, read as text.

\* 0-based offsets at which pat occurs in text
Positions(text, pat) ==
    {i \in 0..(Len(text) - Len(pat)) : Slice(text, i, i + Len(pat)) = pat}

\* the rest of the line that holds offset i (up to, not including, the newline)
RestOfLine(text, i) ==
    LET ends == {j \in i..(Len(text) - 1) : text[j + 1] = 10}
    IN  Slice(text, i, IF ends = {} THEN Len(text)
                       ELSE CHOOSE j \in ends : \A k \in ends : j <= k)

\* dd statements that copy the file onto itself (the Mach-O splice): the
\* text `dd if="$o" of=`
DdSplice == <<100, 100, 32, 105, 102, 61, 34, 36, 111, 34, 32, 111, 102, 61>>

\* the statement dd if="$o" of="$o" bs=8 skip=512 count=36 conv=notrunc 2>/dev/null
DdExpected ==
    <<100, 100, 32, 105, 102, 61, 34, 36, 111, 34, 32, 111, 102, 61, 34, 36, 111, 34, 32,
      98, 115, 61, 56, 32, 115, 107, 105, 112, 61, 53, 49, 50, 32, 99, 111, 117, 110, 116,
      61, 51, 54, 32, 99, 111, 110, 118, 61, 110, 111, 116, 114, 117, 110, 99, 32, 50, 62,
      47, 100, 101, 118, 47, 110, 117, 108, 108>>

\* C11 as stated: on x86-64 every Mach-O splice dd statement of the script
\* reads bs=8 skip=512 count=36 conv=notrunc (8*512 = 0x1000, 8*36 = 288),
\* and the bytes at 0x1000..0x1003 are CF FA ED FE.
C11_AsStated ==
    (HeaderBuilt /\ arch = "AMD64") =>
        /\ Positions(scriptBytes, DdSplice) # {}
        /\ \A i \in Positions(scriptBytes, DdSplice) : RestOfLine(scriptBytes, i) = DdExpected
        /\ Slice(Bytes(header), \h1000, \h1004) = <<\hCF, \hFA, \hED, \hFE>>

-----------------------------------------------------------------------------
\* What sh and its utilities do with the text of the generated script
\* (ape.go:233-356).

\* offset of the first occurrence of pat in text at or after from, or -1
FindFrom(text, pat, from) ==
    LET hits == {i \in from..(Len(text) - Len(pat)) : Slice(text, i, i + Len(pat)) = pat}
    IN  IF hits = {} THEN -1 ELSE CHOOSE i \in hits : \A j \in hits : i <= j

\* the shell word that starts at offset i, after quote removal: text inside
\* single quotes is literal, a backslash outside them quotes the next byte,
\* blank or newline ends the word
RECURSIVE ShellWord(_, _, _)
ShellWord(text, i, quoted) ==
    IF i >= Len(text) THEN <<>>
    ELSE IF quoted
    THEN LET j == FindFrom(text, <<39>>, i)
         IN  IF j < 0 THEN Slice(text, i, Len(text))
             ELSE Slice(text, i, j) \o ShellWord(text, j + 1, FALSE)
    ELSE LET c == text[i + 1]
         IN  IF c = 39 THEN ShellWord(text, i + 1, TRUE)
             ELSE IF c = 92 /\ i + 1 < Len(text)
             THEN <<text[i + 2]>> \o ShellWord(text, i + 2, FALSE)
             ELSE IF c = 32 \/ c = 10 \/ c = 9 THEN <<>>
             ELSE <<c>> \o ShellWord(text, i + 1, FALSE)

\* printf with the format fmt and no arguments, one item of the format at
\* offset i: the bytes it writes, whether printf goes on, and where.  \ddd
\* is the byte of up to three octal digits; \a \b \f \n \r \t \v \\ are the
\* one-letter escapes; %% is a percent sign; %d-like conversions print 0 and
\* %s-like ones nothing for the missing argument; any other directive ends
\* the output with an error.
PrintfItem(fmt, i) ==
    LET c == fmt[i + 1]
        at(k) == IF i + k < Len(fmt) THEN fmt[i + k + 1] ELSE -1
        oct(k) == at(k) >= 48 /\ at(k) <= 55
        n == IF oct(1) THEN IF oct(2) THEN IF oct(3) THEN 3 ELSE 2 ELSE 1 ELSE 0
        value == IF n = 1 THEN at(1) - 48
                 ELSE IF n = 2 THEN 8 * (at(1) - 48) + (at(2) - 48)
                 ELSE 64 * (at(1) - 48) + 8 * (at(2) - 48) + (at(3) - 48)
        d == at(1)
        escape == CASE d = 97 -> 7
                    [] d = 98 -> 8
                    [] d = 102 -> 12
                    [] d = 110 -> 10
                    [] d = 114 -> 13
                    [] d = 116 -> 9
                    [] d = 118 -> 11
                    [] d = 92 -> 92
                    [] OTHER -> -1
        item(bytes, next) == [out |-> bytes, ok |-> TRUE, next |-> next]
    IN  IF c = 92
        THEN IF n > 0 THEN item(<<value % 256>>, i + 1 + n)
             ELSE IF escape >= 0 THEN item(<<escape>>, i + 2)
             ELSE item(<<92>>, i + 1)
        ELSE IF c = 37
        THEN IF d = 37 THEN item(<<37>>, i + 2)
             ELSE IF d \in {100, 105, 111, 117, 120, 88} THEN item(<<48>>, i + 2)
             ELSE IF d \in {115, 99, 98} THEN item(<<>>, i + 2)
             ELSE [out |-> <<>>, ok |-> FALSE, next |-> i]
        ELSE item(<<c>>, i + 1)

\* printf with the format fmt and no arguments: the next n items of the
\* format from offset i (the first half of them, then the second half), up
\* to the end of the format or to an error.  A format has at most as many
\* items as bytes: Printf(fmt, 0, Len(fmt)) is the whole of it.
RECURSIVE Printf(_, _, _)
Printf(fmt, i, n) ==
    IF n = 0 \/ i >= Len(fmt) THEN [out |-> <<>>, ok |-> TRUE, next |-> i]
    ELSE IF n = 1 THEN PrintfItem(fmt, i)
    ELSE LET first == Printf(fmt, i, n \div 2)
         IN  IF ~first.ok THEN first
             ELSE LET rest == Printf(fmt, first.next, n - n \div 2)
                  IN  [out |-> first.out \o rest.out, ok |-> rest.ok, next |-> rest.next]

\* the words of the script that sh and dd look for: "printf ", "dd if=",
\* "bs=", "skip=", "count=", "conv=notrunc"
scriptWords ==
    [printf |-> <<112, 114, 105, 110, 116, 102, 32>>,
     dd |-> <<100, 100, 32, 105, 102, 61>>,
     bs |-> <<98, 115, 61>>,
     skip |-> <<115, 107, 105, 112, 61>>,
     count |-> <<99, 111, 117, 110, 116, 61>>,
     notrunc |-> <<99, 111, 110, 118, 61, 110, 111, 116, 114, 117, 110, 99>>]

\* the script from the n-th occurrence (n = 1, 2) of the word pat on, or
\* nothing if there is none
Statement(text, pat, n) ==
    LET first == FindFrom(text, pat, 0)
        at == IF n = 1 \/ first < 0 THEN first ELSE FindFrom(text, pat, first + 1)
    IN  IF at < 0 THEN <<>> ELSE Slice(text, at, Len(text))

\* the decimal value of operand key (such as "bs=") on the first line of
\* stmt: -1 if the line has no such operand, -2 if no number follows it
Operand(stmt, key) ==
    LET nl == FindFrom(stmt, <<10>>, 0)
        line == IF nl < 0 THEN stmt ELSE Slice(stmt, 0, nl)
        i == FindFrom(line, key, 0)
        digit(k) == k < Len(line) /\ line[k + 1] >= 48 /\ line[k + 1] <= 57
        RECURSIVE decimal(_, _)
        decimal(k, acc) == IF digit(k) THEN decimal(k + 1, 10 * acc + (line[k + 1] - 48)) ELSE acc
    IN  IF i < 0 THEN -1
        ELSE IF ~digit(i + Len(key)) THEN -2
        ELSE decimal(i + Len(key), 0)

\* dd if=f of=f bs= skip= count= conv=notrunc, the blocks lo..hi-1 in order
\* (the first half of them, then the second): block k is read at
\* (skip + k) * bs, up to the end of the file, and written at k * bs
RECURSIVE DdBlocks(_, _, _, _, _)
DdBlocks(file, bs, skip, lo, hi) ==
    LET block(k) == Slice(file, (skip + k) * bs, Min((skip + k + 1) * bs, Len(file)))
    IN  IF Len(file) = 0 \/ lo >= hi THEN file
        ELSE IF lo + 1 = hi
        THEN IF (skip + lo) * bs >= Len(file) THEN file
             ELSE Slice(file, 0, Min(lo * bs, Len(file)))
                  \o block(lo)
                  \o Slice(file, Min(lo * bs + Len(block(lo)), Len(file)), Len(file))
        ELSE DdBlocks(DdBlocks(file, bs, skip, lo, (lo + hi) \div 2), bs, skip, (lo + hi) \div 2, hi)

\* the dd statement at the start of stmt, run on the file itself: the file
\* after it.  dd rejects an operand that is no number, or bs=0, before it
\* opens a file; bs defaults to 512, skip to 0 and count to the whole input;
\* without conv=notrunc the file is emptied when it is opened for output.
DdStatement(file, stmt) ==
    LET bs == IF Operand(stmt, scriptWords.bs) = -1 THEN 512 ELSE Operand(stmt, scriptWords.bs)
        skip == IF Operand(stmt, scriptWords.skip) = -1 THEN 0 ELSE Operand(stmt, scriptWords.skip)
        count == IF Operand(stmt, scriptWords.count) = -1 /\ bs > 0 THEN Len(file) \div bs + 1
                 ELSE Operand(stmt, scriptWords.count)
    IN  IF bs <= 0 \/ skip < 0 \/ count < 0 THEN file
        ELSE IF Operand(stmt, scriptWords.notrunc) = -1 THEN <<>>
        ELSE DdBlocks(file, bs, skip, 0, count)

-----------------------------------------------------------------------------
\* The produced file run by sh on a host: the statements of the generated
\* script (ape.go:233-356), taken in the order sh executes them.

\* the pass on a well-formed input with one PT_LOAD (the two driver
\* variants, an entry point 0x401025, whose low byte is a percent sign, and
\* an entry point 0x275C4000, a backslash and a single quote); sh is run on
\* the file it produces
InitShell ==
    /\ headType = "Hcosmo"
    /\ outfile = "a.out"
    /\ inputFile \in
           LET v == CHOOSE x \in FieldVariants : x.entry = U64(0, 0, \h0040, \h0090)
           IN  {MkElf(ElfLen, elfMachineAMD64, e, 64, 56, PhdrsOf(<<1>>, v)) :
                   e \in {v.entry, U64(0, 0, \h0040, \h1025), U64(0, 0, \h275C, \h4000)}}
               \cup {ScenarioElf}
    /\ arch \in Archs
    /\ loaderSource \in {<<>>} \cup {c \in LoaderInputs : ~c[1].ok}
    /\ arch = "AMD64" <=> loaderSource = <<>>
    /\ diskMode = 509
    /\ disk = Paged(inputFile)
    /\ elfData = <<>>
    /\ header = <<>>
    /\ embeddedElf = <<>>
    /\ machoHeader = <<>>
    /\ apeLoaderGz = <<>>
    /\ scriptBytes = <<>>
    /\ pc = "start"
    /\ outcome = "running"
    /\ ShellIdle

\* everything the pass left behind, except the file's bytes
pass == <<headType, outfile, arch, loaderSource, inputFile, diskMode, elfData, header, locals,
          pc, outcome>>

\* $m after m=$(uname -m 2>/dev/null) || m=x86_64 (ape.go:238), as the
\* tests of the script tell it apart: x86_64 or amd64, aarch64 or arm64,
\* anything else
HostKind ==
    LET m == IF host.m = "fail" THEN "x86_64" ELSE host.m
    IN  IF m \in {"x86_64", "amd64"} THEN "x86"
        ELSE IF m \in {"aarch64", "arm64"} THEN "arm"
        ELSE "other"

\* $(uname -s) matches one of CYGWIN* MINGW* MSYS* (ape.go:352)
WindowsUname ==
    \E p \in {<<67, 89, 71, 87, 73, 78>>, <<77, 73, 78, 71, 87>>, <<77, 83, 89, 83>>} :
        Len(host.s) >= Len(p) /\ SubSeq(host.s, 1, Len(p)) = p

\* a statement that changes neither the file nor the pipe
ShGo(to, evs) ==
    /\ sh' = to
    /\ events' = events \o evs
    /\ UNCHANGED <<pass, host, disk, status, piped>>

\* exit with a status, after the statements evs
ShExit(code, evs) ==
    /\ sh' = "exited"
    /\ status' = code
    /\ events' = events \o evs \o <<"exit">>
    /\ UNCHANGED <<pass, host, disk, piped>>

\* the produced file is started on some host: what uname -m prints ("fail":
\* uname fails), what uname -s prints (Linux, Darwin, CYGWIN_NT-10.0,
\* MINGW64_NT-10.0, MSYS_NT-10.0), and whether /Applications is a directory;
\* m=$(uname -m 2>/dev/null) || m=x86_64 (ape.go:238)
ShUname ==
    /\ pc = "done"
    /\ outcome = "ok"
    /\ sh = "idle"
    /\ host' \in [m : {"x86_64", "amd64", "aarch64", "arm64", "riscv64", "fail"},
                  s : {<<76, 105, 110, 117, 120>>, <<68, 97, 114, 119, 105, 110>>,
                       <<67, 89, 71, 87, 73, 78, 95, 78, 84, 45, 49, 48, 46, 48>>,
                       <<77, 73, 78, 71, 87, 54, 52, 95, 78, 84, 45, 49, 48, 46, 48>>,
                       <<77, 83, 89, 83, 95, 78, 84, 45, 49, 48, 46, 48>>},
                  apps : BOOLEAN]
    /\ sh' = "archTest"
    /\ events' = Append(events, "uname -m")
    /\ UNCHANGED <<pass, disk, status, piped>>

\* the tests of $m (ape.go:242, 265 for AMD64; 303-306, 309 for ARM64)
ShArchTest ==
    /\ sh = "archTest"
    /\ IF arch = "AMD64"
       THEN IF HostKind = "x86" THEN ShGo("x.open", <<>>)
            ELSE IF HostKind = "arm" THEN ShGo("r.apps", <<>>)
            ELSE ShGo("windows", <<>>)
       ELSE IF HostKind = "x86" THEN ShExit(1, <<"echo >&2">>)
            ELSE IF HostKind = "arm" THEN ShGo("a.apps", <<>>)
            ELSE ShGo("windows", <<>>)

\* if [ -d /Applications ] (ape.go:266, 294-297 for AMD64; 310, 327 for ARM64)
ShTestApplications ==
    \/ /\ sh = "r.apps"
       /\ IF host.apps THEN ShGo("r.rosetta", <<"test -d: yes">>)
          ELSE ShExit(1, <<"test -d: no", "echo >&2">>)
    \/ /\ sh = "a.apps"
       /\ IF host.apps THEN ShGo("l.cached", <<"test -d: yes">>)
          ELSE ShGo("a.ape", <<"test -d: no">>)

\* a script that goes on to the splice when arch -x86_64 fails
ShRosetta_ignored ==
    /\ sh = "r.rosetta"
    /\ \E ok \in BOOLEAN :
          ShGo("r.open", <<IF ok THEN "rosetta: yes" ELSE "rosetta: no">>)

\* if ! arch -x86_64 /usr/bin/true (ape.go:268-272)
ShRosetta ==
    /\ sh = "r.rosetta"
    /\ \E ok \in BOOLEAN :
          IF ok THEN ShGo("r.open", <<"rosetta: yes">>)
          ELSE ShExit(1, <<"rosetta: no", "echo >&2">>)

\* o="$(command -v "$0")"; exec 7<> "$o" || exit 121 (ape.go:243-244,
\* 273-274, 331)
ShOpen ==
    \E p \in {"x", "r", "a"} :
        /\ sh = p \o ".open"
        /\ \E ok \in BOOLEAN :
              IF ok THEN ShGo(p \o ".printf", <<"open7">>)
              ELSE ShExit(121, <<"open7 failed">>)

\* printf '...' >&7: the bytes printf writes go to offset 0 of the file
\* (ape.go:245-255, 275-285, 332-342)
ShPrintf ==
    \E p \in {"x", "r", "a"} :
        /\ sh = p \o ".printf"
        /\ LET fmt == ShellWord(Statement(scriptBytes, scriptWords.printf, IF p = "r" THEN 2 ELSE 1),
                                Len(scriptWords.printf), FALSE)
           IN  disk' = Paged(Copy(Bytes(disk), 0, Printf(fmt, 0, Len(fmt)).out))
        /\ sh' = p \o ".close"
        /\ events' = Append(events, "printf")
        /\ UNCHANGED <<pass, host, status, piped>>

\* exec 7<&- (ape.go:256, 286, 343)
ShClose ==
    \E p \in {"x", "r", "a"} :
        /\ sh = p \o ".close"
        /\ ShGo(IF p = "a" THEN "a.exec" ELSE p \o ".dd", <<"close7">>)

\* [ -d /Applications ] && dd ... (ape.go:257-262); dd ... (ape.go:287-292)
ShDd ==
    \E p \in {"x", "r"} :
        /\ sh = p \o ".dd"
        /\ LET stmt == Statement(scriptBytes, scriptWords.dd, IF p = "r" THEN 2 ELSE 1)
           IN  IF stmt # <<>> /\ (p = "r" \/ host.apps)
               THEN /\ disk' = Paged(DdStatement(Bytes(disk), stmt))
                    /\ events' = Append(events, "dd")
               ELSE UNCHANGED <<disk, events>>
        /\ sh' = p \o ".exec"
        /\ UNCHANGED <<pass, host, status, piped>>

\* exec "$0" "$@" (ape.go:263, 293, 344)
ShReexec ==
    /\ sh \in {"x.exec", "r.exec", "a.exec"}
    /\ ShGo("exec self", <<"exec self">>)

\* a loader that is already there:
\* type ape >/dev/null 2>&1 && exec ape "$o" "$@" (ape.go:329);
\* [ -x "$t" ] && exec "$t" "$o" "$@" (ape.go:330);
\* macOS: if [ -x "$t" ] && file "$t" | grep -q "Mach-O" (ape.go:313-315)
ShLoaderOnHand ==
    \/ /\ sh = "a.ape"
       /\ \E found \in BOOLEAN :
             IF found THEN ShGo("exec ape", <<"ape: yes", "exec ape">>)
             ELSE ShGo("a.t", <<"ape: no">>)
    \/ /\ sh = "a.t"
       /\ \E found \in BOOLEAN :
             IF found THEN ShGo("exec loader", <<"loader: yes", "exec loader">>)
             ELSE ShGo("a.open", <<"loader: no">>)
    \/ /\ sh = "l.cached"
       /\ \E found \in BOOLEAN :
             IF found THEN ShGo("exec loader", <<"loader: yes", "exec loader">>)
             ELSE ShGo("l.cc", <<"loader: no">>)

\* dd if="$o" bs=1 skip=... count=... | gzip -dc >"$t.c.$$" || exit
\* (ape.go:322): dd needs numbers for skip and count; gzip fails on an
\* empty stream and may fail on any other
ShExtract ==
    /\ sh = "l.extract"
    /\ LET stmt == Statement(scriptBytes, scriptWords.dd, 1)
           from == Operand(stmt, scriptWords.bs) * Operand(stmt, scriptWords.skip)
           len == Operand(stmt, scriptWords.bs) * Operand(stmt, scriptWords.count)
           bytes == IF Operand(stmt, scriptWords.skip) >= 0 /\ Operand(stmt, scriptWords.count) >= 0
                    THEN Slice(Bytes(disk), Min(from, Len(Bytes(disk))),
                               Min(from + len, Len(Bytes(disk))))
                    ELSE <<>>
       IN  \E ok \in BOOLEAN :
              /\ piped' = bytes
              /\ IF ok /\ bytes # <<>>
                 THEN /\ sh' = "l.build"
                      /\ events' = Append(events, "extract")
                      /\ status' = status
                 ELSE \E code \in {1, 2} :
                         /\ sh' = "exited"
                         /\ status' = code
                         /\ events' = events \o <<"extract failed", "exit">>
    /\ UNCHANGED <<pass, host, disk>>

\* the loader built from its source: if ! type cc (ape.go:317-320);
\* mkdir -p "${t%/*}" || exit (ape.go:321); mv -f "$t.c.$$" "$t.c" || exit;
\* cc -w -O -o "$t.$$" "$t.c" || exit; mv -f "$t.$$" "$t" || exit;
\* exec "$t" "$o" "$@" (ape.go:323-326).  cmd || exit leaves with the
\* status of the failed command.
ShBuildLoader ==
    \/ /\ sh = "l.cc"
       /\ \E ok \in BOOLEAN :
             IF ok THEN ShGo("l.mkdir", <<"cc: yes">>)
             ELSE ShExit(1, <<"cc: no", "echo >&2">>)
    \/ /\ sh = "l.mkdir"
       /\ \E ok \in BOOLEAN :
             IF ok THEN ShGo("l.extract", <<"mkdir">>)
             ELSE \E code \in {1, 2} : ShExit(code, <<"mkdir failed">>)
    \/ /\ sh = "l.build"
       /\ \E ok \in BOOLEAN :
             IF ok THEN ShGo("exec loader", <<"mv", "cc", "mv", "exec loader">>)
             ELSE \E code \in {1, 2} : ShExit(code, <<"build failed">>)

\* case "$(uname -s 2>/dev/null)" in CYGWIN*|MINGW*|MSYS*) exec cmd //c "$0"
\* "$@" ;; esac; echo 'APE: unsupported platform' >&2; exit 1 (ape.go:350-356)
ShWindows ==
    /\ sh = "windows"
    /\ IF WindowsUname
       THEN ShGo("exec cmd", <<"uname -s", "exec cmd">>)
       ELSE ShExit(1, <<"uname -s", "echo >&2">>)

NextShell ==
    \/ Next
    \/ ShUname
    \/ ShArchTest
    \/ ShTestApplications
    \/ ShRosetta
    \/ ShOpen
    \/ ShPrintf
    \/ ShClose
    \/ ShDd
    \/ ShReexec
    \/ ShLoaderOnHand
    \/ ShExtract
    \/ ShBuildLoader
    \/ ShWindows

SpecShell == InitShell /\ [][NextShell]_vars

-----------------------------------------------------------------------------
\* Properties of the script's run.

\* the last statement sh has executed
LastEvent == IF events = <<>> THEN "" ELSE events[Len(events)]

\* the u32 at offset p of b, when it is below 2^31
U32At(b, p) == b[p + 1] + 256 * b[p + 2] + 65536 * b[p + 3] + 16777216 * b[p + 4]

\* the dd statement of the x86-64 script that sh runs in the current branch
DdLineRun ==
    Statement(scriptBytes, scriptWords.dd, IF sh = "r.exec" THEN 2 ELSE 1)

DdRan == arch = "AMD64" /\ sh \in {"x.exec", "r.exec"} /\ LastEvent = "dd"

\* C12: on x86-64, once the script's dd has run (bs, skip, count read from
\* the emitted statement), the file starts with MH_MAGIC_64, has filetype
\* MH_EXECUTE and CPU type AMD64, its ncmds = 2 load commands (LC_SEGMENT_64,
\* LC_UNIXTHREAD; sizeofcmds bytes) lie within the bs*count copied bytes, and
\* the source range [0x1000, 0x1000 + bs*count) lies in the header, past
\* the script.
C12_DdYieldsMacho ==
    DdRan =>
        LET f == Bytes(disk)
            bs == Operand(DdLineRun, scriptWords.bs)
            skip == Operand(DdLineRun, scriptWords.skip)
            count == Operand(DdLineRun, scriptWords.count)
            cmd1 == 32
            cmd2 == cmd1 + U32At(f, cmd1 + 4)
        IN  /\ Slice(f, 0, 4) = <<\hCF, \hFA, \hED, \hFE>>
            /\ Slice(f, 4, 8) = <<7, 0, 0, 1>>
            /\ U32At(f, 12) = 2
            /\ U32At(f, 16) = 2
            /\ U32At(f, cmd1) = \h19
            /\ U32At(f, cmd2) = 5
            /\ cmd2 + U32At(f, cmd2 + 4) = 32 + U32At(f, 20)
            /\ 32 + U32At(f, 20) <= bs * count
            /\ bs * skip = \h1000
            /\ bs * skip >= scriptOffset + Len(scriptBytes)
            /\ bs * skip + bs * count <= apeHeaderSize
            /\ Slice(f, 0, bs * count) = Slice(Bytes(header), bs * skip, bs * skip + bs * count)

C12_Witness ==
    /\ DdRan
    /\ sh = "x.exec"
    /\ host.apps
    /\ host.m = "amd64"
    /\ Operand(DdLineRun, scriptWords.count) > 0
    /\ Bytes(disk)[1] = \hCF

\* the states in which sh has ended or been replaced by another program
ShEnded == {"exited", "exec self", "exec ape", "exec loader", "exec cmd"}

\* uname -s reports CYGWIN*, MINGW* or MSYS*
WindowsHost == WindowsUname

\* the file is as the pass wrote it
FileAsBuilt == Bytes(disk) = Bytes(header) \o elfData

Opened == \E k \in 1..Len(events) : events[k] = "open7"

\* C13 as stated: for either target and every uname -m, on a host whose
\* uname -s matches CYGWIN*, MINGW* or MSYS* the script ends in exec cmd,
\* and up to there it has not opened the file for writing nor changed a byte.
C13_AsStated ==
    (sh # "idle" /\ WindowsHost) =>
        /\ ~Opened
        /\ FileAsBuilt
        /\ sh \in ShEnded => sh = "exec cmd"

IsPrefix(a, b) == Len(a) <= Len(b) /\ SubSeq(b, 1, Len(a)) = a

Happened(e) == \E k \in 1..Len(events) : events[k] = e

\* the statements of the x86-64 branch of an x86-64 script, in order, with
\* or without the dd copy, and the run that ends at the failed open
SpliceRun(withDd) ==
    <<"uname -m", "open7", "printf", "close7">>
    \o (IF withDd THEN <<"dd">> ELSE <<>>) \o <<"exec self">>

OpenFailedRun == <<"uname -m", "open7 failed", "exit">>

\* C14 as stated: an x86-64 script on an x86_64/amd64 host opens fd 7 (exit
\* 121 on failure, nothing written), writes the 64 bytes of the embedded ELF
\* header at offset 0, closes fd 7, runs the dd copy iff /Applications is a
\* directory, and re-executes itself; the file then starts with 7F 45 4C 46
\* without /Applications and with CF FA ED FE with it.
C14_AsStated ==
    (arch = "AMD64" /\ sh # "idle" /\ HostKind = "x86") =>
        LET f == Bytes(disk)
        IN  /\ IsPrefix(events, SpliceRun(host.apps)) \/ IsPrefix(events, OpenFailedRun)
            /\ ~Happened("printf") => FileAsBuilt
            /\ Happened("open7 failed") => (sh = "exited" => status = 121)
            /\ (Happened("printf") /\ ~Happened("dd")) => Slice(f, 0, 64) = embeddedElf
            /\ sh = "exec self" =>
                   Slice(f, 0, 4) = IF host.apps THEN <<\hCF, \hFA, \hED, \hFE>>
                                    ELSE <<\h7F, \h45, \h4C, \h46>>

\* the three mismatches of target and host
NoRosettaHost == arch = "AMD64" /\ HostKind = "arm" /\ ~host.apps

RosettaFails == arch = "AMD64" /\ HostKind = "arm" /\ host.apps /\ Happened("rosetta: no")

WrongHostForArm == arch = "ARM64" /\ host.m \in {"x86_64", "amd64"}

\* C15: on a mismatch (x86-64 target on an ARM64 host without /Applications,
\* or with it but with arch -x86_64 failing; ARM64 target on an x86_64/amd64
\* host) the script's run ends only by an error on stderr and exit 1, and it
\* has neither opened the file for writing nor changed a byte of it.
C15_MismatchExits ==
    (sh # "idle" /\ (NoRosettaHost \/ RosettaFails \/ WrongHostForArm)) =>
        /\ ~Opened
        /\ ~Happened("open7 failed")
        /\ ~Happened("printf")
        /\ ~Happened("dd")
        /\ FileAsBuilt
        /\ sh \in ShEnded =>
               /\ sh = "exited"
               /\ status = 1
               /\ IsPrefix(<<"echo >&2", "exit">>,
                           SubSeq(events, Len(events) - 1, Len(events)))

C15_Witness ==
    /\ RosettaFails
    /\ sh = "exited"
    /\ status = 1
    /\ LastEvent = "exit"
    /\ FileAsBuilt

\* the runs of an ARM64 script on an ARM64 host without /Applications
LinuxArmRuns ==
    LET start == <<"uname -m", "test -d: no">>
    IN  {start \o <<"ape: yes", "exec ape">>,
         start \o <<"ape: no", "loader: yes", "exec loader">>,
         start \o <<"ape: no", "loader: no", "open7 failed", "exit">>,
         start \o <<"ape: no", "loader: no", "open7", "printf", "close7", "exec self">>}

\* C16 as stated: an ARM64 script on an ARM64 host without /Applications
\* execs ape if it is on PATH, else the cached loader if it is executable,
\* and only then opens fd 7 (exit 121 on failure), writes the embedded ELF
\* header at offset 0 and re-executes; with ape or the cached loader
\* available the file is not modified.
C16_AsStated ==
    (arch = "ARM64" /\ sh # "idle" /\ HostKind = "arm" /\ ~host.apps) =>
        LET f == Bytes(disk)
            built == Bytes(header) \o elfData
        IN  /\ \E run \in LinuxArmRuns : IsPrefix(events, run)
            /\ ~Happened("printf") => f = built
            /\ (Happened("open7 failed") /\ sh = "exited") => status = 121
            /\ Happened("printf") =>
                   /\ Slice(f, 0, 64) = embeddedElf
                   /\ Slice(f, 64, Len(f)) = Slice(built, 64, Len(built))

-----------------------------------------------------------------------------
\* Properties of the pass's failures.

\* the file at the path is shorter than 64 bytes or does not start with
\* 7F 45 4C 46
BadInput == Len(inputFile) < 64 \/ Slice(inputFile, 0, 4) # elfMagic

Enabled == headType = "Hcosmo" /\ outfile # ""

\* C17: on an input shorter than 64 bytes or without the ELF magic the pass,
\* once it has read the file, fails with NotElf; it does not get to
\* os.Create, and the file at the path keeps its bytes.
C17_NotElfLeavesFile ==
    (Enabled /\ BadInput) =>
        /\ pc \in {"start", "validate", "exit"}
        /\ Bytes(disk) = inputFile
        /\ pc = "exit" => outcome = IF elfData = inputFile THEN "NotElf" ELSE "Io"
        /\ pc = "validate" => elfData = inputFile

C17_Witness ==
    /\ Enabled
    /\ Len(inputFile) < 64
    /\ pc = "exit"
    /\ outcome = "NotElf"
    /\ Bytes(disk) = inputFile

\* C18 as stated: on an input of at least 64 bytes that starts with the ELF
\* magic, whatever e_phoff, e_phentsize and e_phnum are, the pass ends in
\* success or in one of NotElf, Io, TooLarge.
C18_AsStated ==
    (Enabled /\ ~BadInput /\ pc \in {"exit", "done"}) =>
        outcome \in {"ok", "NotElf", "Io", "TooLarge"}

\* the pass has stopped inside makeAPEHeader: the file has been created and
\* is still empty, the header buffer is allocated
AssemblerFailed == pc = "exit" /\ header # <<>> /\ disk = <<>>

\* C19 as stated: on an input the driver accepts, makeAPEHeader fails only
\* with TooLarge, and does so exactly when the script is longer than 0xFC00
\* bytes, on ARM64 for every size of the compressed loader.
C19_AsStated ==
    (Enabled /\ ~BadInput) =>
        /\ AssemblerFailed => (outcome = "TooLarge" /\ Len(scriptBytes) > \hFC00)
        /\ HeaderBuilt => Len(scriptBytes) <= \hFC00

-----------------------------------------------------------------------------
\* Properties of the PE image.

\* C20: for both architectures the PE image at 0x80 is consistent: signature
\* PE\0\0; Machine 0x8664 (AMD64) or 0xAA64 (ARM64); NumberOfSections 1;
\* SizeOfOptionalHeader 240, so that the section header is at 0x188, named
\* .text; Magic 0x20B; Subsystem 3; SizeOfHeaders 0x200 covers the section
\* table's end 0x1B0; the raw data [0x200, 0x400) lies below the script;
\* AddressOfEntryPoint = VirtualAddress = 0x1000; the characteristics
\* 0x60000020 have EXECUTE and READ and not WRITE.
C20_PEImage ==
    HeaderBuilt =>
        LET h == Bytes(header)
            pe == U32At(h, \h3C)
            coff == pe + 4
            opt == coff + 20
            sect == opt + Uint16At(h, coff + 16)
            rawPtr == U32At(h, sect + 20)
            rawSize == U32At(h, sect + 16)
            chars == U32At(h, sect + 36)
        IN  /\ pe = \h80
            /\ Slice(h, pe, pe + 4) = <<80, 69, 0, 0>>
            /\ Uint16At(h, coff) = IF arch = "ARM64" THEN \hAA64 ELSE \h8664
            /\ Uint16At(h, coff + 2) = 1
            /\ Uint16At(h, coff + 16) = 240
            /\ sect = \h188
            /\ Slice(h, sect, sect + 8) = <<46, 116, 101, 120, 116, 0, 0, 0>>
            /\ Uint16At(h, opt) = \h20B
            /\ Uint16At(h, opt + 68) = 3
            /\ U32At(h, opt + 60) = \h200
            /\ U32At(h, opt + 60) >= sect + 40
            /\ sect + 40 = \h1B0
            /\ rawPtr = \h200
            /\ rawPtr + rawSize = \h400
            /\ rawPtr + rawSize <= scriptOffset
            /\ U32At(h, opt + 16) = \h1000
            /\ U32At(h, sect + 12) = \h1000
            /\ chars = 6 * 16 * 16777216 + 2 * 16
            /\ (chars \div (2 * 16 * 16777216)) % 2 = 1
            /\ (chars \div (4 * 16 * 16777216)) % 2 = 1
            /\ h[sect + 36 + 4] < 128

C20_Witness ==
    /\ pc = "done"
    /\ outcome = "ok"
    /\ arch = "ARM64"
    /\ apeLoaderGz # <<>>
    /\ Uint16At(Bytes(header), \h84) = \hAA64
    /\ Uint16At(Bytes(header), \h84 + 2) = 1

-----------------------------------------------------------------------------
\* Properties of the PE entry stub.

\* C21 as stated: the stub at 0x200 follows the target architecture: the 3
\* bytes 31 C0 C3 for x86-64, the 8 bytes 00 00 80 D2 C0 03 5F D6 for ARM64,
\* so that its encoding matches the COFF Machine field at 0x84.
C21_AsStated ==
    HeaderBuilt =>
        LET h == Bytes(header)
        IN  /\ arch = "AMD64" =>
                   /\ Uint16At(h, \h84) = \h8664
                   /\ Slice(h, \h200, \h203) = <<\h31, \hC0, \hC3>>
            /\ arch = "ARM64" =>
                   /\ Uint16At(h, \h84) = \hAA64
                   /\ Slice(h, \h200, \h208) = <<0, 0, \h80, \hD2, \hC0, 3, \h5F, \hD6>>

-----------------------------------------------------------------------------
\* Properties of the header read as shell text.

\* the offset at which the shell word that starts at offset i ends: at an
\* unquoted blank, newline or operator character, or at the end of the text;
\* -1 if a single quote is left open
RECURSIVE WordEnd(_, _, _)
WordEnd(text, i, quoted) ==
    IF i >= Len(text) THEN IF quoted THEN -1 ELSE i
    ELSE IF quoted
    THEN LET j == FindFrom(text, <<39>>, i)
         IN  IF j < 0 THEN -1 ELSE WordEnd(text, j + 1, FALSE)
    ELSE LET c == text[i + 1]
         IN  IF c = 39 THEN WordEnd(text, i + 1, TRUE)
             ELSE IF c = 92 /\ i + 1 < Len(text) THEN WordEnd(text, i + 2, FALSE)
             ELSE IF c \in {32, 10, 9, 60, 62, 124, 38, 59, 40, 41} THEN i
             ELSE WordEnd(text, i + 1, FALSE)

\* sh reading the header from byte 0: the first command is the one word
\* MZqFpD=... and assigns value; the second is ":" with the redirection
\* << and a quoted delimiter word __APE__; no quote is left open, no byte
\* before the heredoc body is NUL, and the body that starts on the next line
\* ends at a line __APE__, the first of which is the script's at 0x400
OpeningTokens(value) ==
    LET h == Slice(Bytes(header), 0, \h408)
        e1 == WordEnd(h, 0, FALSE)
        c2 == e1 + 1
        d == c2 + 4
        ed == WordEnd(h, d, FALSE)
    IN  /\ Slice(h, 0, 7) = <<77, 90, 113, 70, 112, 68, 61>>
        /\ e1 > 7
        /\ At(h, e1) = 10
        /\ ShellWord(h, 7, FALSE) = value
        /\ WordEnd(h, c2, FALSE) = c2 + 1
        /\ ShellWord(h, c2, FALSE) = <<58>>
        /\ Slice(h, c2 + 1, d) = <<32, 60, 60>>
        /\ At(h, d) = 39
        /\ ed > d
        /\ At(h, ed) = 10
        /\ ShellWord(h, d, FALSE) = <<95, 95, 65, 80, 69, 95, 95>>
        /\ \A p \in 0..ed : At(h, p) # 0
        /\ \A s \in (ed + 1)..\h3FF :
               (s = ed + 1 \/ At(h, s - 1) = 10) => Slice(h, s, s + 8) # TerminatorLine
        /\ At(h, \h3FF) = 10
        /\ Slice(h, \h400, \h408) = TerminatorLine

\* C22 as stated: the header tokenises without a syntax error as one
\* assignment to MZqFpD followed by ":" with a quoted-delimiter heredoc, and
\* the value assigned to MZqFpD is empty.
C22_AsStated == HeaderBuilt => OpeningTokens(<<>>)

\* C22, amended: the header tokenises without a syntax error as one
\* assignment to MZqFpD followed by ":" with a quoted-delimiter heredoc, and
\* the value assigned to MZqFpD is a newline followed by 35 spaces.
C22_OpeningTokens == HeaderBuilt => OpeningTokens(<<10>> \o [k \in 1..35 |-> 32])

C22_Witness ==
    /\ pc = "done"
    /\ outcome = "ok"
    /\ WordEnd(Slice(Bytes(header), 0, \h408), 0, FALSE) = \h2D
    /\ Len(ShellWord(Slice(Bytes(header), 0, \h408), 7, FALSE)) = 36

-----------------------------------------------------------------------------
\* Two builds, one after the other: what of the input the header depends on.

\* the offsets of the fields of input f that the header may depend on:
\* e_entry, e_phoff, e_phentsize, e_phnum, p_type of the program headers up
\* to the first PT_LOAD, and the p_vaddr of that one
ListedFields(f) ==
    LET phoff == IndexOf64(Uint64At(f, 32))
        at(i) == phoff + i * Uint16At(f, 54)
        isLoad(i) == <<ByteAt(f, at(i)), ByteAt(f, at(i) + 1), ByteAt(f, at(i) + 2),
                       ByteAt(f, at(i) + 3)>> = LE(1, 4)
        scanned == {i \in 0..(Uint16At(f, 56) - 1) : \A j \in 0..(i - 1) : ~isLoad(j)}
    IN  (24..39) \cup (54..57)
        \cup IF phoff < 0 THEN {}
             ELSE UNION {IF isLoad(i) THEN (at(i)..(at(i) + 3)) \cup ((at(i) + 16)..(at(i) + 23))
                         ELSE at(i)..(at(i) + 3) : i \in scanned}

\* two inputs of equal length that agree on those fields
Agree(f, g) ==
    /\ Len(f) = Len(g)
    /\ Len(f) >= 64
    /\ \A p \in ListedFields(f) : ByteAt(f, p) = ByteAt(g, p)

\* input f with every byte changed that is neither the magic nor one of
\* those fields
Vary(f) ==
    [k \in 1..Len(f) |-> IF k <= 4 \/ (k - 1) \in ListedFields(f) THEN f[k] ELSE (f[k] + 1) % 256]

\* the linker runs again with the same target and loader source, on an
\* input that agrees with the first one on the listed fields; the header of
\* the first build is kept in piped, which the pass does not use
Rerun ==
    /\ pc = "done"
    /\ outcome = "ok"
    /\ piped = <<>>
    /\ \E f \in {Vary(inputFile)} \cup {g \in DriverFiles : Len(g) >= 64 /\ g # inputFile} :
          /\ Agree(inputFile, f)
          /\ inputFile' = f
          /\ disk' = Paged(f)
    /\ piped' = header
    /\ elfData' = <<>>
    /\ header' = <<>>
    /\ embeddedElf' = <<>>
    /\ machoHeader' = <<>>
    /\ apeLoaderGz' = <<>>
    /\ scriptBytes' = <<>>
    /\ pc' = "start"
    /\ outcome' = "running"
    /\ UNCHANGED <<headType, outfile, arch, loaderSource, diskMode, host, sh, events, status>>

NextTwice ==
    \/ Next
    \/ Rerun

SpecTwice == Init /\ [][NextTwice]_vars

\* C23: for the same target architecture and loader source, two inputs of
\* equal length that agree on e_entry, e_phoff, e_phentsize, e_phnum, the
\* p_type sequence up to the first PT_LOAD and its p_vaddr yield the same
\* 65,536-byte header, whatever their other bytes are.
C23_HeaderOfListedFields ==
    (piped # <<>> /\ HeaderBuilt) => (header = piped /\ Len(Bytes(header)) = 65536)

C23_Witness ==
    /\ piped # <<>>
    /\ pc = "done"
    /\ arch = "AMD64"
    /\ inputFile \notin DriverFiles
    /\ Slice(inputFile, 40, 48) # ToU64(\h1234)
    /\ header = piped

-----------------------------------------------------------------------------
\* Properties of the output read as ELF.

\* every 56-byte program header of the input lies inside the file
EntriesInFile ==
    InPhoff >= 0 /\ \A i \in 0..(InPhnum - 1) : PhdrPos(i) + 56 <= Len(inputFile)

\* the output with the embedded ELF header in bytes 0..63, read as ELF
\* (payload: the bytes of the output from 65,536 on): the table is at input
\* e_phoff + 65,536 with the input's e_phentsize and e_phnum; of every
\* program header, p_flags, p_vaddr, p_filesz, p_memsz and p_align are the
\* input's and p_offset is the input's plus 65,536, equal to it modulo
\* 16,384; and the byte of the output at patched p_offset + k, k < p_filesz,
\* is the byte of the input at p_offset + k unless it belongs to a patched
\* p_offset field
ElfEquivalent(payload) ==
    /\ Len(payload) = Len(inputFile)
    /\ Uint64At(embeddedElf, 32) = AddU64(Uint64At(inputFile, 32), Shift64)
    /\ Slice(embeddedElf, 54, 58) = Slice(inputFile, 54, 58)
    /\ \A i \in 0..(InPhnum - 1) :
          LET e == PhdrPos(i)
              orig == Uint64At(inputFile, e + 8)
              new == Uint64At(payload, e + 8)
              o == IndexOf64(orig)
              filesz == IndexOf64(Uint64At(inputFile, e + 32))
          IN  /\ Slice(payload, e + 4, e + 8) = Slice(inputFile, e + 4, e + 8)
              /\ Slice(payload, e + 16, e + 24) = Slice(inputFile, e + 16, e + 24)
              /\ Slice(payload, e + 32, e + 56) = Slice(inputFile, e + 32, e + 56)
              /\ new = AddU64(orig, Shift64)
              /\ new[1] = orig[1] /\ new[2] % 64 = orig[2] % 64
              /\ o >= 0 =>
                    \A p \in o..(Len(inputFile) - 1) :
                        (filesz < 0 \/ p - o < filesz) =>
                            (InField(p) \/ payload[p + 1] = inputFile[p + 1])

\* C24 as stated: once the loop has patched the payload, the output with
\* the embedded header spliced in is, read as ELF, equivalent to the input,
\* for every input whose program headers lie inside the file.
C24_AsStated == (pc = "fnDone" /\ EntriesInFile) => ElfEquivalent(elfData)

\* C24, amended: the same, for inputs in which no p_offset field overlaps
\* another program header (e_phentsize >= 48, or at most one program header).
C24_ElfEquivalence ==
    (pc = "fnDone" /\ EntriesInFile /\ (InPhentsize >= 48 \/ InPhnum <= 1))
        => ElfEquivalent(elfData)

\* two program headers; the first maps the bytes from offset 64 on, which
\* hold both p_offset fields
C24_Witness ==
    /\ pc = "fnDone"
    /\ EntriesInFile
    /\ InPhentsize = 56
    /\ InPhnum = 2
    /\ Uint64At(inputFile, FieldPos(0)) = ToU64(64)
    /\ IndexOf64(Uint64At(inputFile, PhdrPos(0) + 32)) > 16
    /\ InField(72)
    /\ elfData[72 + 2 + 1] = 1

-----------------------------------------------------------------------------
\* Properties of the printf payload.

\* the format printf receives: the emitted payload, which the script places
\* between printf ' and ' >&7, after sh has removed the quotes
PayloadFormat == ShellWord(scriptBytes \o <<39>>, 0, TRUE)

\* C25 as stated: for every embedded ELF header, the payload read by the
\* shell's single-quote rules and then as a printf format writes exactly
\* the 64 header bytes in order -- a percent sign, a digit after an escaped
\* byte, a single quote and a backslash included.
C25_AsStated ==
    pc \in {"fnPatch", "fnDone"} =>
        LET r == Printf(PayloadFormat, 0, Len(PayloadFormat))
        IN  r.ok /\ r.out = embeddedElf

-----------------------------------------------------------------------------
\* Properties of the order of the pass's steps.

\* C26 as stated: the output file is truncated, and then written, only
\* after the header has been assembled successfully: until then, and after
\* a failure of the assembler such as TooLarge, the file at the path is the
\* original one.
C26_AsStated == ~HeaderBuilt => Bytes(disk) = inputFile

-----------------------------------------------------------------------------
\* Properties of the room the script takes.

\* the assembler has built the script (ape.go:230-370 done)
ScriptBuilt == pc \in {"place", "embed", "pe", "placeMacho", "newline", "pad"} \/ HeaderBuilt

\* first offset the script must not reach: the Mach-O header on x86-64, the
\* compressed loader on ARM64
RegionStart == IF arch = "AMD64" THEN \h1000 ELSE \h8000

\* C27: the script, placed at [0x400, 0x400 + len), ends at or below 0x1000
\* on x86-64 and at or below 0x8000 on ARM64, and so does the longest script
\* there is (all 64 bytes of the embedded header written as 4-byte
\* escapes); its length never exceeds 0xFC00, the pass never fails with
\* TooLarge, and once the header is built the script text stands in it
\* unchanged by the regions placed after it.
C27_ScriptBelowRegions ==
    /\ outcome # "TooLarge"
    /\ ScriptBuilt =>
          /\ scriptOffset + Len(scriptBytes) <= RegionStart
          /\ Len(scriptBytes) <= \hFC00
          /\ scriptOffset
               + Len(fillPlaceholders(arch,
                        buildScript(arch, [k \in 1..64 |-> 0], machoOffsetOf(arch), 296),
                        apeLoaderGz)) <= RegionStart
    /\ HeaderBuilt =>
          Slice(Bytes(header), scriptOffset, scriptOffset + Len(scriptBytes)) = scriptBytes

\* a finished x86-64 pass whose script holds 4-byte escapes and whose Mach-O
\* header stands at 0x1000, right after the padding that follows the script
C27_Witness ==
    /\ pc = "done" /\ outcome = "ok" /\ arch = "AMD64"
    /\ Len(scriptBytes) > 1024
    /\ \E k \in 1..64 : Len(encodeByte(embeddedElf[k])) = 4
    /\ LET h == Bytes(header)
       IN  /\ Slice(h, \h1000, \h1000 + 296) = machoHeader
           /\ At(h, scriptOffset + Len(scriptBytes)) = 10

-----------------------------------------------------------------------------
\* Properties of the embedded loader and of its extraction.

\* dd if="$o" bs=1 skip=32768 count=L, followed by a space
ExtractCommand(L) ==
    <<100, 100, 32, 105, 102, 61, 34, 36, 111, 34, 32, 98, 115, 61, 49, 32,
      115, 107, 105, 112, 61, 51, 50, 55, 54, 56, 32, 99, 111, 117, 110, 116, 61>>
    \o Decimal(L) \o <<32>>

\* the events of the run of sh so far, and the place of the first e in them
EventSet == {events[i] : i \in 1..Len(events)}

FirstAt(e) == CHOOSE i \in 1..Len(events) : events[i] = e /\ \A j \in 1..(i - 1) : events[j] # e

\* C28: on an ARM64 build with a loader of L > 0 compressed bytes that fits,
\* the script's extraction command is dd if="$o" bs=1 skip=32768 count=L
\* with no placeholder left, header bytes [0x8000, 0x8000 + L) are the gzip
\* stream, and the bytes dd hands to gzip are that stream; on macOS the
\* extraction happens only after the cached-loader test has failed, cc has
\* been found and the directory made, in that order, and a loader built
\* from the source is moved into place (mv, cc, mv) right before its exec.
C28_LoaderExtraction ==
    (arch = "ARM64" /\ Len(apeLoaderGz) > 0 /\ \h8000 + Len(apeLoaderGz) <= apeHeaderSize
       /\ HeaderBuilt) =>
       /\ indexOf(scriptBytes, ExtractCommand(Len(apeLoaderGz))) >= 0
       /\ indexOf(scriptBytes, placeholderOffset) < 0
       /\ indexOf(scriptBytes, placeholderSize) < 0
       /\ Slice(Bytes(header), \h8000, \h8000 + Len(apeLoaderGz)) = apeLoaderGz
       /\ (EventSet \cap {"extract", "extract failed"} # {}) =>
             /\ piped = apeLoaderGz
             /\ "loader: yes" \notin EventSet
             /\ {"loader: no", "cc: yes", "mkdir"} \subseteq EventSet
             /\ FirstAt("loader: no") < FirstAt("cc: yes")
             /\ FirstAt("cc: yes") < FirstAt("mkdir")
             /\ \A i \in 1..Len(events) :
                   events[i] \in {"extract", "extract failed"} => FirstAt("mkdir") < i
       /\ ("extract" \in EventSet /\ sh = "exec loader") =>
             SubSeq(events, FirstAt("extract") + 1, Len(events))
                = <<"mv", "cc", "mv", "exec loader">>

\* sh on macOS ARM64 has extracted the loader, whose stream holds zero and
\* newline bytes, built it and exec'ed it
C28_Witness ==
    /\ arch = "ARM64" /\ sh = "exec loader" /\ "extract" \in EventSet
    /\ piped = apeLoaderGz /\ Len(piped) > 18
    /\ \E i, j \in 1..Len(piped) : piped[i] = 0 /\ piped[j] = 10

-----------------------------------------------------------------------------
\* Properties of the search for the loader source.

\* makeAPEHeader has called getApeLoaderSource and goes on
LoaderChosen ==
    pc \in {"magic", "quote", "heredoc", "lfanew", "filler", "script"} \/ ScriptBuilt

\* the candidate can be read and holds a source
HoldsSource(c) == c.ok /\ Len(c.data) > 0

\* C29 as stated: on an ARM64 build the loader is the gzip stream of the
\* first candidate, in the order GOROOT-relative path, HOME-relative path,
\* APE_LOADER_SOURCE, that holds a source; it is left out only when no
\* candidate holds one, and then the build goes on and nothing but padding
\* stands at 0x8000.
C29_AsStated ==
    (arch = "ARM64" /\ LoaderChosen) =>
       /\ apeLoaderGz = getApeLoaderSource(SelectSeq(loaderSource, HoldsSource))
       /\ apeLoaderGz = <<>> <=> ~\E i \in 1..3 : HoldsSource(loaderSource[i])
       /\ (apeLoaderGz = <<>> /\ HeaderBuilt) => At(Bytes(header), \h8000) = 10

-----------------------------------------------------------------------------
\* Properties of the padding.

\* offset i lies in the Mach-O region (x86-64) or in the region of the
\* compressed loader (ARM64 with loader)
InEmbeddedRegion(i) ==
    \/ arch = "AMD64" /\ i >= \h1000 /\ i < \h1000 + Len(machoHeader)
    \/ arch = "ARM64" /\ Len(apeLoaderGz) > 0 /\ i >= \h8000 /\ i < \h8000 + Len(apeLoaderGz)

\* the header the claim describes, given the header before the padding:
\* below the script end the bytes before the padding, in the two regions
\* the Mach-O header and the gzip stream as built, 0x0A everywhere else
PaddedAsClaimed ==
    LET before == Bytes(header)
        scriptEnd == scriptOffset + Len(scriptBytes)
    IN  [k \in 1..apeHeaderSize |->
            IF k - 1 < scriptEnd THEN before[k]
            ELSE IF ~InEmbeddedRegion(k - 1) THEN 10
            ELSE IF arch = "AMD64" THEN machoHeader[k - \h1000]
            ELSE apeLoaderGz[k - \h8000]]

\* C30: the padding step leaves every byte of [script end, 0x10000) outside
\* the Mach-O region and the loader region equal to 0x0A, leaves in those
\* regions the Mach-O header and the gzip stream as built, zero bytes
\* included, and changes no byte below the script end.
C30_PaddingFrame == [][pc = "pad" => header' = Paged(PaddedAsClaimed)]_vars

\* the padding has just run on an ARM64 header with a loader: the stream at
\* 0x8000 keeps its zero bytes, and newlines stand right after the script
\* and right after the stream
C30_Witness ==
    /\ pc = "writeHeader" /\ arch = "ARM64" /\ Len(apeLoaderGz) > 0
    /\ LET h == Bytes(header)
       IN  /\ Slice(h, \h8000, \h8000 + Len(apeLoaderGz)) = apeLoaderGz
           /\ At(h, \h8000 + 3) = 0
           /\ At(h, \h8000 + Len(apeLoaderGz)) = 10
           /\ At(h, scriptOffset + Len(scriptBytes)) = 10
           /\ At(h, \h8000 - 1) = 10

====
